---- MODULE Spec2Model ----
(***************************************************************************)
(* Model of the market data of the pricing crate, src/src/market_data.     *)
(* L3MarketData (l3.rs): the two side maps price -> MarketLevel, the order *)
(* index id -> (side, price), and the operations update (Add, Update,      *)
(* Remove), clear and get_price; behaviours Spec.                          *)
(* L1MarketData (l1.rs): price, max, the callback registry, the update     *)
(* family, clear, get_price and subscribe; behaviours SpecL1.              *)
(* L2SweepableMarketData (l2.rs): the two side maps price -> size, update, *)
(* clear and get_price; behaviours SpecL2.                                 *)
(* L2FullAmountMarketData (l2.rs): the two side maps size -> price,        *)
(* update, clear and get_price; behaviours SpecFull.                       *)
(* BidOffer (bid_offer.rs): new, new_with_price and get_mid; behaviours    *)
(* SpecValue.  SpecAny has the calls of any one of the four depth models.  *)
(* VenuePricingSource (lib.rs): the subscription registry, subscribe and   *)
(* unsubscribe; behaviours SpecSource.                                     *)
(* TieredMarket (lib.rs): the two vectors of Level and get_price;          *)
(* behaviours SpecTiered.                                                  *)
(***************************************************************************)
EXTENDS Integers, FiniteSets, Sequences, TLC

(* ------------------------------ bounds -------------------------------- *)
\* order ids are 1..MaxId
MaxId == 2
\* prices are 1..MaxPrice
MaxPrice == 2
\* order sizes passed to update are 1..MaxSize
MaxSize == 2
\* at most MaxDup calls of Add are made with an id that is in the order index
MaxDup == 1
\* sizes asked of get_price are 0..MaxQty
MaxQty == 3
\* callbacks are 1..MaxCallbacks and the registry holds at most MaxCallbacks
MaxCallbacks == 2
\* prices handed to BidOffer::new_with_price are -MaxMid..MaxMid
MaxMid == 3
\* the callbacks passed to subscribe are 1..MaxSubscribe, each call passing
\* a larger one than those registered or held
MaxSubscribe == 4
\* a side of a TieredMarket holds at most MaxLevels levels
MaxLevels == 2

Ids == 1..MaxId
Prices == 1..MaxPrice
Sizes == 1..MaxSize
Qtys == 0..MaxQty

\* enum MarketSide
MarketSide == {"Bid", "Offer"}
\* enum UpdateAction
UpdateAction == {"Add", "Update", "Remove"}

(* ------------------------------- state -------------------------------- *)
VARIABLES
    bids,    \* BTreeMap<P, MarketLevel>: price -> [size, prices: id -> size]
    offers,  \* BTreeMap<P, MarketLevel>
    prices,  \* BTreeMap<I, MarketLiquidityMap>: id -> [side, price]
    dup_adds, \* number of Add calls made so far with an id already indexed
    last,     \* the last call: operation, update action and returned value
    market,    \* L1MarketData: [price, max: BidOffer, callbacks: Vec]
    published, \* what the last L1 call published to the callbacks
    sweepable, \* L2SweepableMarketData: [bids, offers], price -> size
    full_amount, \* L2FullAmountMarketData: [bids, offers], size -> price
    bid_offer,   \* a BidOffer<P> value on which get_mid is called
    source,      \* VenuePricingSource: [id, market_subscriptions]
    held,        \* the Subscription handles the caller holds, each with the
                 \* callback it was returned for
    tiered       \* TieredMarket: [bids, offers: Vec<Level>]

l3_vars == <<bids, offers, prices, dup_adds>>
l1_vars == <<market, published>>
l2_vars == <<sweepable>>
full_vars == <<full_amount>>
value_vars == <<bid_offer>>
source_vars == <<source, held>>
tiered_vars == <<tiered>>

vars == <<l3_vars, last, l1_vars, l2_vars, full_vars, value_vars, source_vars,
          tiered_vars>>

\* the variables of the objects a call on one model does not touch
beside_l3 ==
    <<l1_vars, l2_vars, full_vars, value_vars, source_vars, tiered_vars>>
beside_l1 ==
    <<l3_vars, l2_vars, full_vars, value_vars, source_vars, tiered_vars>>
beside_l2 ==
    <<l3_vars, l1_vars, full_vars, value_vars, source_vars, tiered_vars>>
beside_full ==
    <<l3_vars, l1_vars, l2_vars, value_vars, source_vars, tiered_vars>>
beside_value ==
    <<l3_vars, l1_vars, l2_vars, full_vars, source_vars, tiered_vars>>
beside_source ==
    <<l3_vars, l1_vars, l2_vars, full_vars, value_vars, tiered_vars>>
beside_tiered ==
    <<l3_vars, l1_vars, l2_vars, full_vars, value_vars, source_vars>>

(* --------------------------- map primitives --------------------------- *)
\* BTreeMap::new()
EmptyMap == <<>>

\* BTreeMap::insert(k, v): insert or replace
MapInsert(m, k, v) == [x \in (DOMAIN m) \cup {k} |-> IF x = k THEN v ELSE m[x]]

\* BTreeMap::remove(k)
MapRemove(m, k) == [x \in (DOMAIN m) \ {k} |-> m[x]]

\* Option<P>: None is the empty sequence, Some(v) is <<v>>
None == <<>>
Some(v) == <<v>>

(* ------------------------- L3MarketData helpers ----------------------- *)
\* MarketLevel { size: A::default(), prices: BTreeMap::new() }
NewLevel == [size |-> 0, prices |-> EmptyMap]

\* add_price with "entry.size = size" in place of "entry.size += size"
add_price_assign(side_store, id, price, size) ==
    LET entry == IF price \in DOMAIN side_store THEN side_store[price] ELSE NewLevel
    IN  MapInsert(side_store, price,
                  [size   |-> size,
                   prices |-> MapInsert(entry.prices, id, size)])

\* add_price that takes a replaced entry's size out of the aggregate
add_price_reconcile(side_store, id, price, size) ==
    LET entry == IF price \in DOMAIN side_store THEN side_store[price] ELSE NewLevel
        old   == IF id \in DOMAIN entry.prices THEN entry.prices[id] ELSE 0
    IN  MapInsert(side_store, price,
                  [size   |-> entry.size + size - old,
                   prices |-> MapInsert(entry.prices, id, size)])

add_price(side_store, id, price, size) ==
    LET entry == IF price \in DOMAIN side_store THEN side_store[price] ELSE NewLevel
    IN  MapInsert(side_store, price,
                  [size   |-> entry.size + size,
                   prices |-> MapInsert(entry.prices, id, size)])

\* remove_price that removes the level although other orders are left in it
remove_price_dropLevel(side_store, id, price) ==
    IF price \notin DOMAIN side_store THEN side_store
    ELSE IF id \notin DOMAIN side_store[price].prices THEN side_store
         ELSE MapRemove(side_store, price)

\* remove_price without the side_store.remove(&price) of an emptied level
remove_price_keepLevel(side_store, id, price) ==
    IF price \notin DOMAIN side_store THEN side_store
    ELSE LET level == side_store[price] IN
         IF id \notin DOMAIN level.prices THEN side_store
         ELSE MapInsert(side_store, price,
                        [size   |-> level.size - level.prices[id],
                         prices |-> MapRemove(level.prices, id)])

\* remove_price without "level.size -= liquidity.size"
remove_price_noSubtract(side_store, id, price) ==
    IF price \notin DOMAIN side_store THEN side_store
    ELSE LET level == side_store[price] IN
         IF id \notin DOMAIN level.prices THEN side_store
         ELSE LET rest == MapRemove(level.prices, id) IN
              IF DOMAIN rest = {}
              THEN MapRemove(side_store, price)
              ELSE MapInsert(side_store, price,
                             [size |-> level.size, prices |-> rest])

remove_price(side_store, id, price) ==
    IF price \notin DOMAIN side_store THEN side_store
    ELSE LET level == side_store[price] IN
         IF id \notin DOMAIN level.prices THEN side_store
         ELSE LET rest == MapRemove(level.prices, id) IN
              IF DOMAIN rest = {}
              THEN MapRemove(side_store, price)
              ELSE MapInsert(side_store, price,
                             [size   |-> level.size - level.prices[id],
                              prices |-> rest])

\* the book as one value
Book(b, o, p) == [bids |-> b, offers |-> o, prices |-> p]

\* match side { Bid => &mut self.bids, Offer => &mut self.offers }
side_store_of(book, side) == IF side = "Bid" THEN book.bids ELSE book.offers

\* write a side map back into the book
with_side_store(book, side, store) ==
    IF side = "Bid" THEN [book EXCEPT !.bids = store]
                    ELSE [book EXCEPT !.offers = store]

\* an update outcome: the book after the call and the Result<(), ()>
Outcome(book, result) == [book |-> book, result |-> result]

\* Add arm that first takes an indexed id out of the level it is indexed at
update_Add_moveIndexed(book, side, id, price, size) ==
    LET taken  == IF id \in DOMAIN book.prices
                  THEN with_side_store(book, book.prices[id].side,
                           remove_price(side_store_of(book, book.prices[id].side),
                                        id, book.prices[id].price))
                  ELSE book
        stored == with_side_store(taken, side,
                      add_price(side_store_of(taken, side), id, price, size))
    IN  Outcome([stored EXCEPT !.prices =
                     MapInsert(book.prices, id, [side |-> side, price |-> price])],
                "Ok")

\* UpdateAction::Add arm of update
update_Add(book, side, id, price, size) ==
    LET stored == with_side_store(book, side,
                      add_price(side_store_of(book, side), id, price, size))
    IN  Outcome([stored EXCEPT !.prices =
                     MapInsert(book.prices, id, [side |-> side, price |-> price])],
                "Ok")

\* same-price Update without "level.size += size - liquidity.size"
update_same_price_keepAggregate(book, liquidity_map, id, size) ==
    LET side_store == side_store_of(book, liquidity_map.side)
        level      == side_store[liquidity_map.price]
    IN  IF id \notin DOMAIN level.prices THEN Outcome(book, "Err")
        ELSE Outcome(
               with_side_store(book, liquidity_map.side,
                 MapInsert(side_store, liquidity_map.price,
                   [size   |-> level.size,
                    prices |-> MapInsert(level.prices, id, size)])),
               "Ok")

\* same-price Update with "level.size += size" (the old size is not taken out)
update_same_price_noDelta(book, liquidity_map, id, size) ==
    LET side_store == side_store_of(book, liquidity_map.side)
        level      == side_store[liquidity_map.price]
    IN  IF id \notin DOMAIN level.prices THEN Outcome(book, "Err")
        ELSE Outcome(
               with_side_store(book, liquidity_map.side,
                 MapInsert(side_store, liquidity_map.price,
                   [size   |-> level.size + size,
                    prices |-> MapInsert(level.prices, id, size)])),
               "Ok")

\* Update arm, indexed price == price: adjust the aggregate and rewrite the size
update_same_price(book, liquidity_map, id, size) ==
    LET side_store == side_store_of(book, liquidity_map.side)
        level      == side_store[liquidity_map.price]
    IN  IF id \notin DOMAIN level.prices THEN Outcome(book, "Err")
        ELSE Outcome(
               with_side_store(book, liquidity_map.side,
                 MapInsert(side_store, liquidity_map.price,
                   [size   |-> level.size + (size - level.prices[id]),
                    prices |-> MapInsert(level.prices, id, size)])),
               "Ok")

\* replace_price without "Self::remove_price(side_store, id, liquidity_map.price)"
update_replace_price_keepOld(book, liquidity_map, id, price, size) ==
    LET side_store == side_store_of(book, liquidity_map.side)
        moved      == add_price(side_store, id, price, size)
        stored     == with_side_store(book, liquidity_map.side, moved)
    IN  Outcome([stored EXCEPT !.prices =
                     MapInsert(book.prices, id,
                         [side |-> liquidity_map.side, price |-> price])],
                "Ok")

\* replace_price without "liquidity_map.price = price"
update_replace_price_staleIndex(book, liquidity_map, id, price, size) ==
    LET side_store == side_store_of(book, liquidity_map.side)
        moved      == add_price(remove_price(side_store, id, liquidity_map.price),
                                id, price, size)
    IN  Outcome(with_side_store(book, liquidity_map.side, moved), "Ok")

\* Update arm, replace_price: remove_price, add_price, liquidity_map.price = price
update_replace_price(book, liquidity_map, id, price, size) ==
    LET side_store == side_store_of(book, liquidity_map.side)
        moved      == add_price(remove_price(side_store, id, liquidity_map.price),
                                id, price, size)
        stored     == with_side_store(book, liquidity_map.side, moved)
    IN  Outcome([stored EXCEPT !.prices =
                     MapInsert(book.prices, id,
                         [side |-> liquidity_map.side, price |-> price])],
                "Ok")

\* Update arm that refuses a side argument other than the indexed side
update_Update_checkSide(book, side, id, price, size) ==
    IF id \notin DOMAIN book.prices THEN Outcome(book, "Err")
    ELSE
      LET liquidity_map == book.prices[id] IN
      IF liquidity_map.side # side
         \/ liquidity_map.price \notin DOMAIN side_store_of(book, liquidity_map.side)
      THEN Outcome(book, "Err")
      ELSE IF liquidity_map.price = price
           THEN update_same_price(book, liquidity_map, id, size)
           ELSE update_replace_price(book, liquidity_map, id, price, size)

\* Update arm that inserts an unknown id the way the L2 models do
update_Update_upsert(book, side, id, price, size) ==
    IF id \notin DOMAIN book.prices THEN update_Add(book, side, id, price, size)
    ELSE
      LET liquidity_map == book.prices[id] IN
      IF liquidity_map.price \notin DOMAIN side_store_of(book, liquidity_map.side)
      THEN Outcome(book, "Err")
      ELSE IF liquidity_map.price = price
           THEN update_same_price(book, liquidity_map, id, size)
           ELSE update_replace_price(book, liquidity_map, id, price, size)

\* UpdateAction::Update arm of update
update_Update(book, side, id, price, size) ==
    IF id \notin DOMAIN book.prices THEN Outcome(book, "Err")
    ELSE
      LET liquidity_map == book.prices[id] IN
      IF liquidity_map.price \notin DOMAIN side_store_of(book, liquidity_map.side)
      THEN Outcome(book, "Err")
      ELSE IF liquidity_map.price = price
           THEN update_same_price(book, liquidity_map, id, size)
           ELSE update_replace_price(book, liquidity_map, id, price, size)

\* Remove arm that takes the order out of the level at the price argument
update_Remove_argPrice(book, side, id, price, size) ==
    IF id \notin DOMAIN book.prices THEN Outcome(book, "Err")
    ELSE
      LET liquidity_map == book.prices[id]
          unindexed     == [book EXCEPT !.prices = MapRemove(book.prices, id)]
      IN  Outcome(
            with_side_store(unindexed, liquidity_map.side,
                remove_price(side_store_of(book, liquidity_map.side),
                             id, price)),
            "Ok")

\* Remove arm with self.prices.get(&id) in place of self.prices.remove(&id)
update_Remove_keepIndex(book, side, id, price, size) ==
    IF id \notin DOMAIN book.prices THEN Outcome(book, "Err")
    ELSE
      LET liquidity_map == book.prices[id]
      IN  Outcome(
            with_side_store(book, liquidity_map.side,
                remove_price(side_store_of(book, liquidity_map.side),
                             id, liquidity_map.price)),
            "Ok")

\* UpdateAction::Remove arm of update
update_Remove(book, side, id, price, size) ==
    IF id \notin DOMAIN book.prices THEN Outcome(book, "Err")
    ELSE
      LET liquidity_map == book.prices[id]
          unindexed     == [book EXCEPT !.prices = MapRemove(book.prices, id)]
      IN  Outcome(
            with_side_store(unindexed, liquidity_map.side,
                remove_price(side_store_of(book, liquidity_map.side),
                             id, liquidity_map.price)),
            "Ok")

\* update: match action { ... }
update(book, action, side, id, price, size) ==
    CASE action = "Add"    -> update_Add(book, side, id, price, size)
      [] action = "Update" -> update_Update(book, side, id, price, size)
      [] action = "Remove" -> update_Remove(book, side, id, price, size)

(* -------------------------------- clear ------------------------------- *)
\* clear without self.prices.clear()
clear_keepIndex(book) == Book(EmptyMap, EmptyMap, book.prices)

\* clear: bids.clear(); offers.clear(); prices.clear()
clear(book) == Book(EmptyMap, EmptyMap, EmptyMap)

(* ------------------------------ get_price ----------------------------- *)
RECURSIVE Ascending(_)
\* the keys of a BTreeMap in iteration order
Ascending(S) ==
    IF S = {} THEN <<>>
    ELSE LET m == CHOOSE x \in S : \A y \in S : x <= y
         IN  <<m>> \o Ascending(S \ {m})

RECURSIVE Reverse(_)
\* Iterator::rev()
Reverse(s) == IF s = <<>> THEN <<>> ELSE Reverse(Tail(s)) \o <<Head(s)>>

RECURSIVE vwap_loop(_, _, _, _, _)
\* the for loop of calc_vwap over the remaining keys iter; the division by
\* current_size aborts (integer division by zero) when current_size is 0
vwap_loop(size, side_store, iter, current_size, current_total) ==
    IF iter = <<>> THEN [status |-> "Ok", value |-> None]
    ELSE
      LET next_price       == Head(iter)
          next_size        == side_store[next_price]
          incremental_size == IF next_size.size + current_size > size
                              THEN size - current_size
                              ELSE next_size.size
          total            == current_total + next_price * incremental_size
          filled           == current_size + incremental_size
      IN  IF filled >= size
          THEN IF filled = 0
               THEN [status |-> "Panic", value |-> None]
               ELSE [status |-> "Ok", value |-> Some(total \div filled)]
          ELSE vwap_loop(size, side_store, Tail(iter), filled, total)

calc_vwap(size, side_store, iter) == vwap_loop(size, side_store, iter, 0, 0)

\* get_price with the offers swept in descending order (.rev() on both sides)
get_price_offersDescending(book, size) ==
    LET b == calc_vwap(size, book.bids, Reverse(Ascending(DOMAIN book.bids)))
        o == calc_vwap(size, book.offers, Reverse(Ascending(DOMAIN book.offers)))
    IN  IF b.status = "Panic" \/ o.status = "Panic"
        THEN [status |-> "Panic", bid |-> None, offer |-> None]
        ELSE [status |-> "Ok", bid |-> b.value, offer |-> o.value]

\* get_price with the bids swept in ascending order (no .rev())
get_price_bidsAscending(book, size) ==
    LET b == calc_vwap(size, book.bids, Ascending(DOMAIN book.bids))
        o == calc_vwap(size, book.offers, Ascending(DOMAIN book.offers))
    IN  IF b.status = "Panic" \/ o.status = "Panic"
        THEN [status |-> "Panic", bid |-> None, offer |-> None]
        ELSE [status |-> "Ok", bid |-> b.value, offer |-> o.value]

\* get_price: BidOffer of the two sweeps, bids best (highest) first
get_price(book, size) ==
    LET b == calc_vwap(size, book.bids, Reverse(Ascending(DOMAIN book.bids)))
        o == calc_vwap(size, book.offers, Ascending(DOMAIN book.offers))
    IN  IF b.status = "Panic" \/ o.status = "Panic"
        THEN [status |-> "Panic", bid |-> None, offer |-> None]
        ELSE [status |-> "Ok", bid |-> b.value, offer |-> o.value]

(* =============================== BidOffer ============================= *)
\* Option<P> values with P a signed integer
MidPrices == {None} \cup {Some(p) : p \in -MaxMid..MaxMid}

Abs(a) == IF a < 0 THEN -a ELSE a

\* the / of the signed integer types: the quotient rounded toward zero
int_div(a, b) ==
    IF (a < 0) = (b < 0) THEN Abs(a) \div Abs(b) ELSE -(Abs(a) \div Abs(b))

\* get_mid with the quotient rounded down
get_mid_floor(self) ==
    IF self.bid # None
    THEN IF self.offer # None
         THEN Some((self.bid[1] + self.offer[1]) \div 2)
         ELSE self.bid
    ELSE self.offer

\* BidOffer::get_mid
get_mid(self) ==
    IF self.bid # None
    THEN IF self.offer # None
         THEN Some(int_div(self.bid[1] + self.offer[1], 2))
         ELSE self.bid
    ELSE self.offer

(* ============================ L1MarketData ============================ *)
\* Option<P> and Option<A> values handed to the L1 calls
OptPrices == {None} \cup {Some(p) : p \in Prices}

OptCaps == {None} \cup {Some(a) : a \in Sizes}

Callbacks == 1..MaxCallbacks

\* BidOffer::new_with_price(bid, offer)
BidOffer(bid, offer) == [bid |-> bid, offer |-> offer]

\* the L1MarketData value: price, max and the callback registry
L1(price_, max_, callbacks_) ==
    [price |-> price_, max |-> max_, callbacks |-> callbacks_]

\* L1MarketData::new()
l1_new == L1(BidOffer(None, None), BidOffer(None, None), <<>>)

\* what one call published: the number of publish_to_subscribers rounds and
\* the market_updated calls in the order they were made, each with the
\* price and max the market held at that moment
Published(rounds, calls) == [rounds |-> rounds, calls |-> calls]

NoPublish == Published(0, <<>>)

\* publish_to_subscribers with the registry walked from its last entry
publish_to_subscribers_lastFirst(self) ==
    Published(1, [i \in 1..Len(self.callbacks) |->
                    [callback |-> self.callbacks[Len(self.callbacks) + 1 - i],
                     price |-> self.price, max |-> self.max]])

\* publish_to_subscribers: for callback in callbacks.iter() { market_updated() }
publish_to_subscribers(self) ==
    Published(1, [i \in 1..Len(self.callbacks) |->
                    [callback |-> self.callbacks[i],
                     price |-> self.price, max |-> self.max]])

\* the outcome of an L1 call: the market after it and what it published
Done(self, published_) == [self |-> self, published |-> published_]

\* update_bid that stores and publishes without comparing
l1_update_bid_always(self, bid) ==
    LET stored == [self EXCEPT !.price = BidOffer(bid, self.price.offer)]
    IN  Done(stored, publish_to_subscribers(stored))

\* L1MarketData::update_bid
l1_update_bid(self, bid) ==
    IF self.price.bid # bid
    THEN LET stored == [self EXCEPT !.price = BidOffer(bid, self.price.offer)]
         IN  Done(stored, publish_to_subscribers(stored))
    ELSE Done(self, NoPublish)

\* L1MarketData::update_offer
l1_update_offer(self, offer) ==
    IF self.price.offer # offer
    THEN LET stored == [self EXCEPT !.price = BidOffer(self.price.bid, offer)]
         IN  Done(stored, publish_to_subscribers(stored))
    ELSE Done(self, NoPublish)

\* L1MarketData::update_max_bid
l1_update_max_bid(self, max_bid) ==
    IF self.max.bid # max_bid
    THEN LET stored == [self EXCEPT !.max = BidOffer(max_bid, self.max.offer)]
         IN  Done(stored, publish_to_subscribers(stored))
    ELSE Done(self, NoPublish)

\* L1MarketData::update_max_offer
l1_update_max_offer(self, max_offer) ==
    IF self.max.offer # max_offer
    THEN LET stored == [self EXCEPT !.max = BidOffer(self.max.bid, max_offer)]
         IN  Done(stored, publish_to_subscribers(stored))
    ELSE Done(self, NoPublish)

\* L1MarketData::update
l1_update(self, bid, offer) ==
    IF self.price.bid # bid \/ self.price.offer # offer
    THEN LET stored == [self EXCEPT !.price = BidOffer(bid, offer)]
         IN  Done(stored, publish_to_subscribers(stored))
    ELSE Done(self, NoPublish)

\* L1MarketData::update_price
l1_update_price(self, new_price) ==
    IF self.price # new_price
    THEN LET stored == [self EXCEPT !.price = new_price]
         IN  Done(stored, publish_to_subscribers(stored))
    ELSE Done(self, NoPublish)

\* L1MarketData::update_with_max
l1_update_with_max(self, bid, offer, max_bid, max_offer) ==
    IF \/ self.price.bid # bid
       \/ self.price.offer # offer
       \/ self.max.bid # max_bid
       \/ self.max.offer # max_offer
    THEN LET stored == [self EXCEPT !.price = BidOffer(bid, offer),
                                    !.max = BidOffer(max_bid, max_offer)]
         IN  Done(stored, publish_to_subscribers(stored))
    ELSE Done(self, NoPublish)

\* update_max that also resets the price
l1_update_max_resetPrice(self, new_max) ==
    IF self.max # new_max
    THEN LET stored == [self EXCEPT !.max = new_max,
                                    !.price = BidOffer(None, None)]
         IN  Done(stored, publish_to_subscribers(stored))
    ELSE Done(self, NoPublish)

\* L1MarketData::update_max
l1_update_max(self, new_max) ==
    IF self.max # new_max
    THEN LET stored == [self EXCEPT !.max = new_max]
         IN  Done(stored, publish_to_subscribers(stored))
    ELSE Done(self, NoPublish)

\* L1MarketData::update_price_with_max
l1_update_price_with_max(self, new_price, new_max) ==
    IF self.price # new_price \/ self.max # new_max
    THEN LET stored == [self EXCEPT !.price = new_price, !.max = new_max]
         IN  Done(stored, publish_to_subscribers(stored))
    ELSE Done(self, NoPublish)

\* clear that looks at the price alone before resetting
l1_clear_priceOnly(self) ==
    IF self.price.bid # None \/ self.price.offer # None
    THEN LET stored == [self EXCEPT !.price = BidOffer(None, None),
                                    !.max = BidOffer(None, None)]
         IN  Done(stored, publish_to_subscribers(stored))
    ELSE Done(self, NoPublish)

\* L1MarketData::clear
l1_clear(self) ==
    IF \/ self.price.bid # None
       \/ self.price.offer # None
       \/ self.max.bid # None
       \/ self.max.offer # None
    THEN LET stored == [self EXCEPT !.price = BidOffer(None, None),
                                    !.max = BidOffer(None, None)]
         IN  Done(stored, publish_to_subscribers(stored))
    ELSE Done(self, NoPublish)

\* Option::map_or(true, |max_size| max_size >= size)
within_max(max_size, size) == IF max_size = None THEN TRUE ELSE max_size[1] >= size

\* get_price with the cap compared by max_size > size
l1_get_price_belowMax(self, size) ==
    BidOffer(IF self.max.bid = None \/ self.max.bid[1] > size
             THEN self.price.bid ELSE None,
             IF self.max.offer = None \/ self.max.offer[1] > size
             THEN self.price.offer ELSE None)

\* L1MarketData::get_price
l1_get_price(self, size) ==
    BidOffer(IF within_max(self.max.bid, size) THEN self.price.bid ELSE None,
             IF within_max(self.max.offer, size) THEN self.price.offer ELSE None)

\* L1MarketData::subscribe: callbacks.push(callback)
l1_subscribe(self, callback) ==
    [self EXCEPT !.callbacks = Append(self.callbacks, callback)]

(* ======================== L2SweepableMarketData ======================= *)
\* the sizes a level of the L2 book is given
LevelSizes == 0..MaxSize

\* the L2SweepableMarketData value: two maps from price to size
L2(bids_, offers_) == [bids |-> bids_, offers |-> offers_]

\* L2SweepableMarketData::new()
l2_new == L2(EmptyMap, EmptyMap)

\* update whose Add and Update add the given size to the size already stored
l2_update_accumulate(self, action, side, price, size) ==
    LET side_store == IF side = "Bid" THEN self.bids ELSE self.offers
        stored ==
            CASE action = "Add"    -> MapInsert(side_store, price,
                                        IF price \in DOMAIN side_store
                                        THEN side_store[price] + size ELSE size)
              [] action = "Update" -> IF price \in DOMAIN side_store
                                      THEN MapInsert(side_store, price,
                                                     side_store[price] + size)
                                      ELSE side_store
              [] action = "Remove" -> MapRemove(side_store, price)
    IN  IF side = "Bid" THEN [self EXCEPT !.bids = stored]
                        ELSE [self EXCEPT !.offers = stored]

\* L2SweepableMarketData::update
l2_update(self, action, side, price, size) ==
    LET side_store == IF side = "Bid" THEN self.bids ELSE self.offers
        stored ==
            CASE action = "Add"    -> MapInsert(side_store, price, size)
              [] action = "Update" -> IF price \in DOMAIN side_store
                                      THEN MapInsert(side_store, price, size)
                                      ELSE side_store
              [] action = "Remove" -> MapRemove(side_store, price)
    IN  IF side = "Bid" THEN [self EXCEPT !.bids = stored]
                        ELSE [self EXCEPT !.offers = stored]

\* L2SweepableMarketData::clear
l2_clear(self) == L2(EmptyMap, EmptyMap)

RECURSIVE l2_vwap_loop(_, _, _, _, _)
\* the for loop of L2SweepableMarketData::calc_vwap over the remaining keys
l2_vwap_loop(size, side_store, iter, current_size, current_total) ==
    IF iter = <<>> THEN [status |-> "Ok", value |-> None]
    ELSE
      LET next_price       == Head(iter)
          next_size        == side_store[next_price]
          incremental_size == IF next_size + current_size > size
                              THEN size - current_size
                              ELSE next_size
          total            == current_total + next_price * incremental_size
          filled           == current_size + incremental_size
      IN  IF filled >= size
          THEN IF filled = 0
               THEN [status |-> "Panic", value |-> None]
               ELSE [status |-> "Ok", value |-> Some(total \div filled)]
          ELSE l2_vwap_loop(size, side_store, Tail(iter), filled, total)

\* calc_vwap that stops at the first level and quotes its price when the
\* level alone covers the size
l2_calc_vwap_firstLevel(size, side_store, iter) ==
    IF iter = <<>> \/ side_store[Head(iter)] < size
    THEN [status |-> "Ok", value |-> None]
    ELSE [status |-> "Ok", value |-> Some(Head(iter))]

\* L2SweepableMarketData::calc_vwap
l2_calc_vwap(size, side_store, iter) ==
    l2_vwap_loop(size, side_store, iter, 0, 0)

\* get_price with the offers swept from the highest price (.rev() on both)
l2_get_price_offersDescending(self, size) ==
    LET b == l2_calc_vwap(size, self.bids, Reverse(Ascending(DOMAIN self.bids)))
        o == l2_calc_vwap(size, self.offers, Reverse(Ascending(DOMAIN self.offers)))
    IN  IF b.status = "Panic" \/ o.status = "Panic"
        THEN [status |-> "Panic", bid |-> None, offer |-> None]
        ELSE [status |-> "Ok", bid |-> b.value, offer |-> o.value]

\* get_price that quotes nothing unless both sides can fill the size
l2_get_price_bothOrNone(self, size) ==
    LET b == l2_calc_vwap(size, self.bids, Reverse(Ascending(DOMAIN self.bids)))
        o == l2_calc_vwap(size, self.offers, Ascending(DOMAIN self.offers))
    IN  IF b.status = "Panic" \/ o.status = "Panic"
        THEN [status |-> "Panic", bid |-> None, offer |-> None]
        ELSE IF b.value = None \/ o.value = None
             THEN [status |-> "Ok", bid |-> None, offer |-> None]
             ELSE [status |-> "Ok", bid |-> b.value, offer |-> o.value]

\* L2SweepableMarketData::get_price
l2_get_price(self, size) ==
    LET b == l2_calc_vwap(size, self.bids, Reverse(Ascending(DOMAIN self.bids)))
        o == l2_calc_vwap(size, self.offers, Ascending(DOMAIN self.offers))
    IN  IF b.status = "Panic" \/ o.status = "Panic"
        THEN [status |-> "Panic", bid |-> None, offer |-> None]
        ELSE [status |-> "Ok", bid |-> b.value, offer |-> o.value]

(* ======================= L2FullAmountMarketData ======================= *)
\* the L2FullAmountMarketData value: two maps from size tier to price
L2Full(bids_, offers_) == [bids |-> bids_, offers |-> offers_]

\* L2FullAmountMarketData::new()
full_new == L2Full(EmptyMap, EmptyMap)

\* L2FullAmountMarketData::update: the maps are keyed by size
full_update(self, action, side, price, size) ==
    LET side_store == IF side = "Bid" THEN self.bids ELSE self.offers
        stored ==
            CASE action = "Add"    -> MapInsert(side_store, size, price)
              [] action = "Update" -> IF size \in DOMAIN side_store
                                      THEN MapInsert(side_store, size, price)
                                      ELSE side_store
              [] action = "Remove" -> MapRemove(side_store, size)
    IN  IF side = "Bid" THEN [self EXCEPT !.bids = stored]
                        ELSE [self EXCEPT !.offers = stored]

\* L2FullAmountMarketData::clear
full_clear(self) == L2Full(EmptyMap, EmptyMap)

RECURSIVE full_find(_, _, _)
\* iter.find(|(&current_size, _)| current_size >= size).map(|(_, &p)| p)
\* over the remaining keys iter of side_store
full_find(side_store, iter, size) ==
    IF iter = <<>> THEN None
    ELSE IF Head(iter) >= size THEN Some(side_store[Head(iter)])
         ELSE full_find(side_store, Tail(iter), size)

\* get_price with the tiers tested by current_size > size
full_get_price_above(self, size) ==
    BidOffer(full_find(self.bids, Ascending(DOMAIN self.bids), size + 1),
             full_find(self.offers, Ascending(DOMAIN self.offers), size + 1))

\* L2FullAmountMarketData::get_price: both sides are walked in key order
full_get_price(self, size) ==
    BidOffer(full_find(self.bids, Ascending(DOMAIN self.bids), size),
             full_find(self.offers, Ascending(DOMAIN self.offers), size))

(* ============================ TieredMarket ============================ *)
\* struct Level { size, price }
Level(size, price) == [size |-> size, price |-> price]

\* the levels a vector of a TieredMarket can hold
Levels == {Level(size, price) : size \in LevelSizes, price \in Prices}

\* struct TieredMarket { bids, offers }
TieredMarket(bids_, offers_) == [bids |-> bids_, offers |-> offers_]

\* TieredMarket { bids: Vec::new(), offers: Vec::new() }
tiered_new == TieredMarket(<<>>, <<>>)

RECURSIVE tiered_find(_, _)
\* iter().find(|&level| level.size > size).map(|level| level.price)
tiered_find(side_levels, size) ==
    IF side_levels = <<>> THEN None
    ELSE IF Head(side_levels).size > size THEN Some(Head(side_levels).price)
         ELSE tiered_find(Tail(side_levels), size)

\* get_price with the levels tested by level.size >= size
tiered_get_price_atLeast(self, size) ==
    BidOffer(tiered_find(self.bids, size - 1), tiered_find(self.offers, size - 1))

\* TieredMarket::get_price
tiered_get_price(self, size) ==
    BidOffer(tiered_find(self.bids, size), tiered_find(self.offers, size))

(* ========================= VenuePricingSource ========================= *)
\* PricingSourceId of the source under study and of another source whose
\* handles are passed to it
ThisSource == 1
OtherSource == 2

\* struct Subscription { pricing_source, subscription }
Subscription(pricing_source, subscription) ==
    [pricing_source |-> pricing_source, subscription |-> subscription]

\* struct MarketSubscription { id, callback }
MarketSubscription(id, callback) == [id |-> id, callback |-> callback]

\* a VenuePricingSource with the id ThisSource and no subscription
source_new == [id |-> ThisSource, market_subscriptions |-> <<>>]

\* subscribe that numbers the subscriptions by the length of the registry
source_subscribe_byLength(self, callback) ==
    LET market_subscriptions == self.market_subscriptions
        subscription_id == Len(market_subscriptions) + 1
    IN  [self   |-> [self EXCEPT !.market_subscriptions =
                        Append(market_subscriptions,
                               MarketSubscription(subscription_id, callback))],
         handle |-> Subscription(self.id, subscription_id)]

\* subscribe that takes the first entry's id + 1 (first() in place of last())
source_subscribe_afterFirst(self, callback) ==
    LET market_subscriptions == self.market_subscriptions
        subscription_id ==
            IF market_subscriptions # <<>>
            THEN market_subscriptions[1].id + 1
            ELSE 1
    IN  [self   |-> [self EXCEPT !.market_subscriptions =
                        Append(market_subscriptions,
                               MarketSubscription(subscription_id, callback))],
         handle |-> Subscription(self.id, subscription_id)]

\* VenuePricingSource::subscribe: the new id is the last entry's id + 1, or 1
source_subscribe(self, callback) ==
    LET market_subscriptions == self.market_subscriptions
        subscription_id ==
            IF market_subscriptions # <<>>
            THEN market_subscriptions[Len(market_subscriptions)].id + 1
            ELSE 1
    IN  [self   |-> [self EXCEPT !.market_subscriptions =
                        Append(market_subscriptions,
                               MarketSubscription(subscription_id, callback))],
         handle |-> Subscription(self.id, subscription_id)]

RECURSIVE retain_other_ids(_, _)
\* Vec::retain(|x| x.id != subscription)
retain_other_ids(subscriptions, subscription) ==
    IF subscriptions = <<>> THEN <<>>
    ELSE IF Head(subscriptions).id # subscription
         THEN <<Head(subscriptions)>>
                  \o retain_other_ids(Tail(subscriptions), subscription)
         ELSE retain_other_ids(Tail(subscriptions), subscription)

\* VenuePricingSource::unsubscribe
source_unsubscribe(self, handle) ==
    IF handle.pricing_source = self.id
    THEN [self EXCEPT !.market_subscriptions =
             retain_other_ids(self.market_subscriptions, handle.subscription)]
    ELSE self

(* ------------------------------ behaviour ----------------------------- *)
Call(op, action, result, quote) ==
    [op |-> op, action |-> action, result |-> result, quote |-> quote]

current == Book(bids, offers, prices)

\* L3MarketData::new(), L1MarketData::new() and L2SweepableMarketData::new()
Init ==
    /\ bids = EmptyMap
    /\ offers = EmptyMap
    /\ prices = EmptyMap
    /\ dup_adds = 0
    /\ last = Call("new", "None", "None", BidOffer(None, None))
    /\ market = l1_new
    /\ published = NoPublish
    /\ sweepable = l2_new
    /\ full_amount = full_new
    /\ bid_offer = BidOffer(None, None)
    /\ source = source_new
    /\ held = {}
    /\ tiered = tiered_new

\* one call of update; the returned Result is kept in last
Apply(action, side, id, price, size) ==
    LET out == update(current, action, side, id, price, size) IN
    /\ bids' = out.book.bids
    /\ offers' = out.book.offers
    /\ prices' = out.book.prices
    /\ last' = Call("update", action, out.result, BidOffer(None, None))
    /\ UNCHANGED beside_l3

UpdateAdd ==
    \E side \in MarketSide, id \in Ids, price \in Prices, size \in Sizes :
        /\ IF id \in DOMAIN prices
           THEN dup_adds < MaxDup /\ dup_adds' = dup_adds + 1
           ELSE dup_adds' = dup_adds
        /\ Apply("Add", side, id, price, size)

UpdateUpdate ==
    \E side \in MarketSide, id \in Ids, price \in Prices, size \in Sizes :
        /\ Apply("Update", side, id, price, size)
        /\ UNCHANGED dup_adds

UpdateRemove ==
    \E side \in MarketSide, id \in Ids, price \in Prices, size \in Sizes :
        /\ Apply("Remove", side, id, price, size)
        /\ UNCHANGED dup_adds

Clear ==
    /\ bids' = clear(current).bids
    /\ offers' = clear(current).offers
    /\ prices' = clear(current).prices
    /\ last' = Call("clear", "None", "None", BidOffer(None, None))
    /\ UNCHANGED <<dup_adds, beside_l3>>

GetPrice ==
    \E size \in Qtys :
        LET q == get_price(current, size) IN
        /\ last' = Call("get_price", "None", q.status, BidOffer(q.bid, q.offer))
        /\ UNCHANGED <<l3_vars, beside_l3>>

Next == UpdateAdd \/ UpdateUpdate \/ UpdateRemove \/ Clear \/ GetPrice

Spec == Init /\ [][Next]_vars

(* ------------------------- behaviour of the L1 market ----------------- *)
\* one call of an L1 mutator with outcome out, recorded under the name op
L1Apply(op, out) ==
    /\ market' = out.self
    /\ published' = out.published
    /\ last' = Call(op, "None", "None", BidOffer(None, None))
    /\ UNCHANGED beside_l1

UpdateBid ==
    \E bid \in OptPrices : L1Apply("update_bid", l1_update_bid(market, bid))

UpdateOffer ==
    \E offer \in OptPrices :
        L1Apply("update_offer", l1_update_offer(market, offer))

UpdateMaxBid ==
    \E max_bid \in OptCaps :
        L1Apply("update_max_bid", l1_update_max_bid(market, max_bid))

UpdateMaxOffer ==
    \E max_offer \in OptCaps :
        L1Apply("update_max_offer", l1_update_max_offer(market, max_offer))

L1Update ==
    \E bid \in OptPrices, offer \in OptPrices :
        L1Apply("update", l1_update(market, bid, offer))

UpdatePrice ==
    \E bid \in OptPrices, offer \in OptPrices :
        L1Apply("update_price", l1_update_price(market, BidOffer(bid, offer)))

UpdateWithMax ==
    \E bid \in OptPrices, offer \in OptPrices,
       max_bid \in OptCaps, max_offer \in OptCaps :
        L1Apply("update_with_max",
                l1_update_with_max(market, bid, offer, max_bid, max_offer))

UpdateMax ==
    \E max_bid \in OptCaps, max_offer \in OptCaps :
        L1Apply("update_max", l1_update_max(market, BidOffer(max_bid, max_offer)))

UpdatePriceWithMax ==
    \E bid \in OptPrices, offer \in OptPrices,
       max_bid \in OptCaps, max_offer \in OptCaps :
        L1Apply("update_price_with_max",
                l1_update_price_with_max(market, BidOffer(bid, offer),
                                         BidOffer(max_bid, max_offer)))

L1Clear == L1Apply("clear", l1_clear(market))

\* get_price that runs a notification round before it returns the quote
L1GetPrice_publishing ==
    \E size \in Qtys :
        /\ last' = Call("get_price", "None", "Ok", l1_get_price(market, size))
        /\ published' = publish_to_subscribers(market)
        /\ UNCHANGED <<market, beside_l1>>

\* L1MarketData::get_price as a call
L1GetPrice ==
    \E size \in Qtys :
        /\ last' = Call("get_price", "None", "Ok", l1_get_price(market, size))
        /\ published' = NoPublish
        /\ UNCHANGED <<market, beside_l1>>

Subscribe ==
    \E callback \in Callbacks :
        /\ Len(market.callbacks) < MaxCallbacks
        /\ market' = l1_subscribe(market, callback)
        /\ published' = NoPublish
        /\ last' = Call("subscribe", "None", "None", BidOffer(None, None))
        /\ UNCHANGED beside_l1

NextL1 ==
    \/ UpdateBid \/ UpdateOffer \/ UpdateMaxBid \/ UpdateMaxOffer
    \/ L1Update \/ UpdatePrice \/ UpdateWithMax \/ UpdateMax
    \/ UpdatePriceWithMax \/ L1Clear \/ L1GetPrice \/ Subscribe

SpecL1 == Init /\ [][NextL1]_vars

(* -------------------- behaviour of the full-amount book --------------- *)
FullUpdate ==
    \E action \in UpdateAction, side \in MarketSide,
       p \in Prices, size \in Sizes :
        /\ full_amount' = full_update(full_amount, action, side, p, size)
        /\ last' = Call("update", action, "None", BidOffer(None, None))
        /\ UNCHANGED beside_full

FullClear ==
    /\ full_amount' = full_clear(full_amount)
    /\ last' = Call("clear", "None", "None", BidOffer(None, None))
    /\ UNCHANGED beside_full

FullGetPrice ==
    \E size \in Qtys :
        /\ last' = Call("get_price", "None", "Ok", full_get_price(full_amount, size))
        /\ UNCHANGED <<full_amount, beside_full>>

NextFull == FullUpdate \/ FullClear \/ FullGetPrice

SpecFull == Init /\ [][NextFull]_vars

(* ---------------------- behaviour of a BidOffer value ----------------- *)
\* BidOffer::new()
ValueNew ==
    /\ bid_offer' = [bid |-> None, offer |-> None]
    /\ last' = Call("new", "None", "None", BidOffer(None, None))
    /\ UNCHANGED beside_value

\* BidOffer::new_with_price(bid, offer)
ValueNewWithPrice ==
    \E bid \in MidPrices, offer \in MidPrices :
        /\ bid_offer' = [bid |-> bid, offer |-> offer]
        /\ last' = Call("new_with_price", "None", "None", BidOffer(None, None))
        /\ UNCHANGED beside_value

\* BidOffer::get_mid(): the returned Option<P> is kept in last.result
ValueGetMid ==
    /\ last' = Call("get_mid", "None", get_mid(bid_offer), BidOffer(None, None))
    /\ UNCHANGED <<bid_offer, beside_value>>

NextValue == ValueNew \/ ValueNewWithPrice \/ ValueGetMid

SpecValue == Init /\ [][NextValue]_vars

(* ---------------------- behaviour of a TieredMarket ------------------- *)
\* the owner pushes a level onto one of the two public vectors
TieredPush ==
    \E side \in MarketSide, level \in Levels :
        /\ IF side = "Bid"
           THEN /\ Len(tiered.bids) < MaxLevels
                /\ tiered' = [tiered EXCEPT !.bids = Append(@, level)]
           ELSE /\ Len(tiered.offers) < MaxLevels
                /\ tiered' = [tiered EXCEPT !.offers = Append(@, level)]
        /\ last' = Call("push", "None", "None", BidOffer(None, None))
        /\ UNCHANGED beside_tiered

\* get_price(size): the returned BidOffer is kept in last.quote
TieredGetPrice ==
    \E size \in Qtys :
        /\ last' = Call("get_price", "None", "Ok", tiered_get_price(tiered, size))
        /\ UNCHANGED <<tiered, beside_tiered>>

NextTiered == TieredPush \/ TieredGetPrice

SpecTiered == Init /\ [][NextTiered]_vars

(* --------------------- behaviour of the pricing source ---------------- *)
\* subscribe(callback): the caller keeps the returned handle
SourceSubscribe ==
    \E callback \in 1..MaxSubscribe :
        /\ \A i \in 1..Len(source.market_subscriptions) :
               source.market_subscriptions[i].callback < callback
        /\ \A h \in held : h.callback < callback
        /\ LET out == source_subscribe(source, callback) IN
           /\ source' = out.self
           /\ held' = held \cup {[handle |-> out.handle, callback |-> callback]}
        /\ last' = Call("subscribe", "None", "None", BidOffer(None, None))
        /\ UNCHANGED beside_source

\* unsubscribe(handle) with a handle the caller holds: the handle is moved
\* into the call and is gone afterwards
SourceUnsubscribe ==
    \E h \in held :
        /\ source' = source_unsubscribe(source, h.handle)
        /\ held' = held \ {h}
        /\ last' = Call("unsubscribe", "None", "None", BidOffer(None, None))
        /\ UNCHANGED beside_source

\* unsubscribe(handle) with a handle returned by another pricing source
SourceUnsubscribeOther ==
    \E subscription \in 1..MaxSubscribe :
        /\ source' = source_unsubscribe(source,
                         Subscription(OtherSource, subscription))
        /\ last' = Call("unsubscribe", "Other", "None", BidOffer(None, None))
        /\ UNCHANGED <<held, beside_source>>

\* the caller drops a handle without passing it to unsubscribe
SourceDropHandle ==
    \E h \in held :
        /\ held' = held \ {h}
        /\ last' = Call("drop", "None", "None", BidOffer(None, None))
        /\ UNCHANGED <<source, beside_source>>

NextSource ==
    SourceSubscribe \/ SourceUnsubscribe \/ SourceUnsubscribeOther
        \/ SourceDropHandle

SpecSource == Init /\ [][NextSource]_vars

(* ----------------------- behaviour of the L2 book --------------------- *)
L2Update ==
    \E action \in UpdateAction, side \in MarketSide,
       p \in Prices, size \in LevelSizes :
        /\ sweepable' = l2_update(sweepable, action, side, p, size)
        /\ last' = Call("update", action, "None", BidOffer(None, None))
        /\ UNCHANGED beside_l2

L2Clear ==
    /\ sweepable' = l2_clear(sweepable)
    /\ last' = Call("clear", "None", "None", BidOffer(None, None))
    /\ UNCHANGED beside_l2

L2GetPrice ==
    \E size \in Qtys :
        LET q == l2_get_price(sweepable, size) IN
        /\ last' = Call("get_price", "None", q.status, BidOffer(q.bid, q.offer))
        /\ UNCHANGED <<sweepable, beside_l2>>

NextL2 == L2Update \/ L2Clear \/ L2GetPrice

SpecL2 == Init /\ [][NextL2]_vars

(* ------------------------- auxiliary definitions ---------------------- *)
RECURSIVE SumSizes(_)
\* the sum of the sizes stored in a level's order map
SumSizes(orders) ==
    IF DOMAIN orders = {} THEN 0
    ELSE LET k == CHOOSE x \in DOMAIN orders : TRUE
         IN  orders[k] + SumSizes(MapRemove(orders, k))

HasLevel(book, side, price) == price \in DOMAIN side_store_of(book, side)

LevelAt(book, side, price) == side_store_of(book, side)[price]

\* the order map of the level at (side, price), empty when there is no level
OrdersAt(book, side, price) ==
    IF HasLevel(book, side, price) THEN LevelAt(book, side, price).prices
    ELSE EmptyMap

\* the aggregate size of the level at (side, price), 0 when there is no level
AggregateAt(book, side, price) ==
    IF HasLevel(book, side, price) THEN LevelAt(book, side, price).size ELSE 0

OtherSide(side) == IF side = "Bid" THEN "Offer" ELSE "Bid"

\* id has an order entry in some level of the book
InSomeLevel(book, id) ==
    \E s \in MarketSide, p \in Prices : id \in DOMAIN OrdersAt(book, s, p)

\* some level of the book holds at least n orders
SomeLevelHolds(n) ==
    \E s \in MarketSide, p \in Prices :
        Cardinality(DOMAIN OrdersAt(current, s, p)) >= n

(* ------------------------------- claims ------------------------------- *)

\* C1: L3 invariant (a). After every sequence of update and clear calls, for
\* every id in the order index the side map named by the index entry has a
\* level at the indexed price, and that level's order map contains the id.
IndexedOrderIsStored ==
    \A id \in DOMAIN prices :
        /\ HasLevel(current, prices[id].side, prices[id].price)
        /\ id \in DOMAIN OrdersAt(current, prices[id].side, prices[id].price)

\* C1 witness: two ids are indexed after a duplicate Add and an Update that
\* returned Ok.
IndexedAfterDuplicateAndUpdate ==
    /\ dup_adds >= 1
    /\ last.action = "Update" /\ last.result = "Ok"
    /\ Cardinality(DOMAIN prices) >= 2

\* C2 (as claimed): after every sequence of update and clear calls, every
\* level's aggregate size equals the sum of the sizes of its orders.
AggregateEqualsSum ==
    \A s \in MarketSide : \A p \in DOMAIN side_store_of(current, s) :
        LevelAt(current, s, p).size = SumSizes(LevelAt(current, s, p).prices)

\* C3: L3 invariant (c). After every sequence of update and clear calls no
\* side map contains a level whose order map is empty.
NoEmptyLevel ==
    \A s \in MarketSide : \A p \in DOMAIN side_store_of(current, s) :
        DOMAIN LevelAt(current, s, p).prices # {}

\* C3 witness: a Remove returned Ok and emptied the book: the level of the
\* last order was deleted with it.
LastOrderRemoved ==
    /\ last.action = "Remove" /\ last.result = "Ok"
    /\ bids = EmptyMap /\ offers = EmptyMap /\ prices = EmptyMap

\* C4: Update or Remove of an id that is not in the order index returns a
\* failure and leaves bids, offers and the order index as they were.
UnknownIdFails ==
    \A action \in {"Update", "Remove"}, side \in MarketSide,
       id \in Ids \ DOMAIN prices, price \in Prices, size \in Sizes :
        LET out == update(current, action, side, id, price, size)
        IN  out.result = "Err" /\ out.book = current

\* C4 witness: an Update or Remove has just failed on a book that holds an
\* order and has an id that is not indexed.
FailedOnNonEmptyBook ==
    /\ last.action \in {"Update", "Remove"} /\ last.result = "Err"
    /\ prices # EmptyMap
    /\ Ids \ DOMAIN prices # {}
    /\ bids # EmptyMap \/ offers # EmptyMap

\* C6: Remove of an indexed order whose level holds two or more orders keeps
\* the level with the remaining orders and lowers its aggregate size by the
\* removed order's size; Remove of the only order of a level deletes the
\* price from the side map, so the sweep of get_price no longer meets it
\* (a side left without levels quotes none for every positive size).
RemoveKeepsSharedLevel ==
    \A id \in DOMAIN prices, side \in MarketSide, price \in Prices, size \in Sizes :
        LET e      == prices[id]
            before == OrdersAt(current, e.side, e.price)
            out    == update(current, "Remove", side, id, price, size)
            store  == side_store_of(current, e.side)
            after  == side_store_of(out.book, e.side)
        IN  id \in DOMAIN before =>
              IF Cardinality(DOMAIN before) >= 2
              THEN /\ HasLevel(out.book, e.side, e.price)
                   /\ OrdersAt(out.book, e.side, e.price) = MapRemove(before, id)
                   /\ AggregateAt(out.book, e.side, e.price)
                        = AggregateAt(current, e.side, e.price) - before[id]
              ELSE /\ ~HasLevel(out.book, e.side, e.price)
                   /\ after = MapRemove(store, e.price)
                   /\ DOMAIN store = {e.price} =>
                        \A q \in Qtys \ {0} :
                            LET quote == get_price(out.book, q)
                            IN  /\ quote.status = "Ok"
                                /\ e.side = "Bid" => quote.bid = None
                                /\ e.side = "Offer" => quote.offer = None

\* C6 witness: a level holds two orders, one of them indexed there, and its
\* Remove leaves the level in place with a smaller aggregate size.
SharedLevelSurvivesRemove ==
    \E id \in DOMAIN prices :
        LET e   == prices[id]
            out == update(current, "Remove", e.side, id, e.price, 1)
        IN  /\ id \in DOMAIN OrdersAt(current, e.side, e.price)
            /\ Cardinality(DOMAIN OrdersAt(current, e.side, e.price)) >= 2
            /\ out.result = "Ok"
            /\ HasLevel(out.book, e.side, e.price)
            /\ AggregateAt(out.book, e.side, e.price)
                 < AggregateAt(current, e.side, e.price)

\* C7: Update of an indexed id with a price other than its indexed price
\* takes the order out of its old level (the level is deleted when it held
\* no other order), stores the order with the new size at the new price on
\* the indexed side, and sets the index entry to the new price; a following
\* Update or Remove of the id acts on the new level.
UpdateMovesOrder ==
    \A id \in DOMAIN prices, side \in MarketSide, size \in Sizes :
        \A price \in Prices \ {prices[id].price} :
            LET e      == prices[id]
                before == OrdersAt(current, e.side, e.price)
                out    == update(current, "Update", side, id, price, size)
                next_u == update(out.book, "Update", side, id, price, 1)
                next_r == update(out.book, "Remove", side, id, price, size)
            IN  id \in DOMAIN before =>
                  /\ out.result = "Ok"
                  /\ IF DOMAIN before = {id}
                     THEN ~HasLevel(out.book, e.side, e.price)
                     ELSE /\ HasLevel(out.book, e.side, e.price)
                          /\ OrdersAt(out.book, e.side, e.price)
                               = MapRemove(before, id)
                  /\ HasLevel(out.book, e.side, price)
                  /\ id \in DOMAIN OrdersAt(out.book, e.side, price)
                  /\ OrdersAt(out.book, e.side, price)[id] = size
                  /\ out.book.prices[id] = [side |-> e.side, price |-> price]
                  /\ side_store_of(out.book, OtherSide(e.side))
                       = side_store_of(current, OtherSide(e.side))
                  /\ next_u.result = "Ok"
                  /\ id \in DOMAIN OrdersAt(next_u.book, e.side, price)
                  /\ OrdersAt(next_u.book, e.side, price)[id] = 1
                  /\ next_r.result = "Ok"
                  /\ id \notin DOMAIN OrdersAt(next_r.book, e.side, price)
                  /\ id \notin DOMAIN next_r.book.prices

\* C7 witness: an Update has returned Ok, an indexed order is alone in its
\* level, and moving it to another price deletes the old level.
LoneOrderMoves ==
    /\ last.action = "Update" /\ last.result = "Ok"
    /\ \E id \in DOMAIN prices : \E price \in Prices \ {prices[id].price} :
        LET e   == prices[id]
            out == update(current, "Update", e.side, id, price, 1)
        IN  /\ DOMAIN OrdersAt(current, e.side, e.price) = {id}
            /\ out.result = "Ok"
            /\ ~HasLevel(out.book, e.side, e.price)
            /\ id \in DOMAIN OrdersAt(out.book, e.side, price)

\* C8: Update of an indexed id with its indexed price returns Ok, sets the
\* order's size to the new size, changes the level's aggregate size by
\* (new size - old size), and leaves the index entry and every other order
\* of the level unchanged.
UpdateSamePriceResizes ==
    \A id \in DOMAIN prices, side \in MarketSide, size \in Sizes :
        LET e      == prices[id]
            before == OrdersAt(current, e.side, e.price)
            out    == update(current, "Update", side, id, e.price, size)
            after  == OrdersAt(out.book, e.side, e.price)
        IN  id \in DOMAIN before =>
              /\ out.result = "Ok"
              /\ DOMAIN after = DOMAIN before
              /\ after[id] = size
              /\ AggregateAt(out.book, e.side, e.price)
                   = AggregateAt(current, e.side, e.price) + (size - before[id])
              /\ out.book.prices = prices
              /\ \A other \in DOMAIN before \ {id} : after[other] = before[other]

\* C8 witness: an Update has returned Ok on a level that holds two orders,
\* and a same-price Update of one of them to another size changes the
\* aggregate size.
SharedLevelResized ==
    /\ last.action = "Update" /\ last.result = "Ok"
    /\ \E id \in DOMAIN prices, size \in Sizes :
        LET e   == prices[id]
            out == update(current, "Update", e.side, id, e.price, size)
        IN  /\ id \in DOMAIN OrdersAt(current, e.side, e.price)
            /\ Cardinality(DOMAIN OrdersAt(current, e.side, e.price)) >= 2
            /\ size # OrdersAt(current, e.side, e.price)[id]
            /\ out.result = "Ok"
            /\ AggregateAt(out.book, e.side, e.price)
                 # AggregateAt(current, e.side, e.price)

\* C9: Add of an id that is not in the book returns Ok, creates the level
\* at (side, price) when it is absent, stores the order with the given size
\* in it, raises the level's aggregate size by exactly that size, and sets
\* the index entry of the id to (side, price).
AddStoresNewOrder ==
    \A id \in Ids \ DOMAIN prices, side \in MarketSide,
       price \in Prices, size \in Sizes :
        LET before == OrdersAt(current, side, price)
            out    == update(current, "Add", side, id, price, size)
        IN  ~InSomeLevel(current, id) =>
              /\ out.result = "Ok"
              /\ HasLevel(out.book, side, price)
              /\ OrdersAt(out.book, side, price) = MapInsert(before, id, size)
              /\ AggregateAt(out.book, side, price)
                   = AggregateAt(current, side, price) + size
              /\ out.book.prices
                   = MapInsert(prices, id, [side |-> side, price |-> price])

\* C9 witness: with no duplicate Add made, an Add has returned Ok and a
\* level holds two orders: the second order joined an existing level.
SecondOrderJoinedLevel ==
    /\ last.action = "Add" /\ last.result = "Ok"
    /\ dup_adds = 0
    /\ SomeLevelHolds(2)

\* C10: Add of an id that already has an entry in the level at (side, price)
\* is not rejected: it returns Ok, replaces the entry's size with the new
\* size, and adds the new size to the level's aggregate size without taking
\* the old size out.
DuplicateAddDoubleCounts ==
    \A side \in MarketSide, price \in Prices, size \in Sizes :
        \A id \in DOMAIN OrdersAt(current, side, price) :
            LET before == OrdersAt(current, side, price)
                out    == update(current, "Add", side, id, price, size)
            IN  /\ out.result = "Ok"
                /\ OrdersAt(out.book, side, price) = MapInsert(before, id, size)
                /\ AggregateAt(out.book, side, price)
                     = AggregateAt(current, side, price) + size

\* C10 witness: a duplicate Add was made, an Add has just returned Ok, and a
\* level's aggregate size exceeds the sum of the sizes of its orders.
AggregateExceedsSum ==
    /\ last.action = "Add" /\ last.result = "Ok"
    /\ dup_adds >= 1
    /\ \E s \in MarketSide : \E p \in DOMAIN side_store_of(current, s) :
        LevelAt(current, s, p).size > SumSizes(LevelAt(current, s, p).prices)

\* C11: Update routes by the side stored in the order index. On every
\* reachable book and for every indexed id, Update called with either side
\* argument returns the same result and the same book as Update called with
\* the stored side; the side map opposite to the stored side is left as it
\* was and the index entry keeps the stored side.
UpdateIgnoresSideArgument ==
    \A id \in DOMAIN prices, side \in MarketSide, price \in Prices, size \in Sizes :
        LET e      == prices[id]
            out    == update(current, "Update", side, id, price, size)
            stored == update(current, "Update", e.side, id, price, size)
        IN  /\ out = stored
            /\ side_store_of(out.book, OtherSide(e.side))
                 = side_store_of(current, OtherSide(e.side))
            /\ out.book.prices[id].side = e.side

\* C11 witness: an order is indexed on one side and an Update naming the
\* opposite side succeeds and changes the side map of the stored side.
UpdateWithWrongSideSucceeds ==
    \E id \in DOMAIN prices, price \in Prices, size \in Sizes :
        LET e   == prices[id]
            out == update(current, "Update", OtherSide(e.side), id, price, size)
        IN  /\ out.result = "Ok"
            /\ side_store_of(out.book, e.side) # side_store_of(current, e.side)
            /\ side_store_of(current, OtherSide(e.side)) # EmptyMap

\* C12: Remove finds the order through the order index alone. On every
\* reachable book and for every indexed id, Remove returns Ok, deletes the
\* index entry and takes the id out of the level at the indexed side and
\* price, and gives the same book whatever side, price and size arguments
\* are passed; no other level of the book is touched.
RemoveIgnoresArguments ==
    \A id \in DOMAIN prices, side \in MarketSide, price \in Prices, size \in Sizes :
        LET e     == prices[id]
            out   == update(current, "Remove", side, id, price, size)
            store == side_store_of(current, e.side)
            after == side_store_of(out.book, e.side)
        IN  /\ out = update(current, "Remove", e.side, id, e.price, 1)
            /\ out.result = "Ok"
            /\ out.book.prices = MapRemove(prices, id)
            /\ HasLevel(out.book, e.side, e.price)
                 => id \notin DOMAIN OrdersAt(out.book, e.side, e.price)
            /\ \A p \in DOMAIN store \ {e.price} :
                 p \in DOMAIN after /\ after[p] = store[p]
            /\ side_store_of(out.book, OtherSide(e.side))
                 = side_store_of(current, OtherSide(e.side))

\* C12 witness: an indexed order shares its side with a level at another
\* price; Remove called with that other price and the opposite side takes
\* the order out of its own level and leaves the other level as it was.
RemoveWithWrongPriceSucceeds ==
    \E id \in DOMAIN prices, price \in Prices :
        LET e   == prices[id]
            out == update(current, "Remove", OtherSide(e.side), id, price, 2)
        IN  /\ price # e.price
            /\ HasLevel(current, e.side, price)
            /\ id \in DOMAIN OrdersAt(current, e.side, e.price)
            /\ out.result = "Ok"
            /\ id \notin DOMAIN out.book.prices
            /\ HasLevel(out.book, e.side, price)
            /\ LevelAt(out.book, e.side, price) = LevelAt(current, e.side, price)

(* --------------------- the sweep, stated over sets --------------------- *)
RECURSIVE SetSum(_, _)
\* the sum of f over the set S
SetSum(S, f) ==
    IF S = {} THEN 0
    ELSE LET x == CHOOSE x \in S : TRUE IN f[x] + SetSum(S \ {x}, f)

Min(a, b) == IF a <= b THEN a ELSE b

\* q is met before p by the sweep of the side: higher bids and lower offers
\* come first
SweptBefore(side, q, p) == IF side = "Bid" THEN q > p ELSE q < p

\* the levels the sweep has consumed when it arrives at p, and their size
Ahead(depth, side, p) == {q \in DOMAIN depth : SweptBefore(side, q, p)}

FilledAhead(depth, side, p) == SetSum(Ahead(depth, side, p), depth)

\* the levels at which the filled size has reached the requested size
FillLevels(depth, side, size) ==
    {p \in DOMAIN depth : FilledAhead(depth, side, p) + depth[p] >= size}

\* the quote of one side for a map depth from price to available size: none
\* when no level reaches size, else total / filled at the first such level,
\* each level contributing min(level size, remaining size)
SweepQuote(depth, side, size) ==
    LET reach == FillLevels(depth, side, size) IN
    IF reach = {} THEN [status |-> "Ok", value |-> None]
    ELSE
      LET p      == CHOOSE c \in reach :
                        \A q \in reach \ {c} : SweptBefore(side, c, q)
          ahead  == Ahead(depth, side, p)
          part   == Min(depth[p], size - FilledAhead(depth, side, p))
          filled == FilledAhead(depth, side, p) + part
          total  == SetSum(ahead, [q \in ahead |-> q * depth[q]]) + p * part
      IN  IF filled = 0 THEN [status |-> "Panic", value |-> None]
          ELSE [status |-> "Ok", value |-> Some(total \div filled)]

\* the available size per price of an L3 side: the level's aggregate size
AggregateDepth(book, side) ==
    [p \in DOMAIN side_store_of(book, side) |-> AggregateAt(book, side, p)]

\* C13: get_price(size) of the L3 book is, per side, the sweep over the
\* levels best price first (bids descending, offers ascending) with the
\* level's aggregate size as its available size: total / filled at the first
\* level where filled reaches size, and none exactly when the sum of the
\* side's aggregate sizes is less than size; for a positive size the call
\* returns normally.
L3QuoteIsAggregateSweep ==
    \A size \in Qtys :
        LET quote == get_price(current, size)
            bid   == SweepQuote(AggregateDepth(current, "Bid"), "Bid", size)
            offer == SweepQuote(AggregateDepth(current, "Offer"), "Offer", size)
            depth(side) == AggregateDepth(current, side)
        IN  /\ quote.status = "Ok" <=> (bid.status = "Ok" /\ offer.status = "Ok")
            /\ quote.status = "Ok" => quote.bid = bid.value /\ quote.offer = offer.value
            /\ size > 0 =>
                 /\ quote.status = "Ok"
                 /\ quote.bid = None
                      <=> SetSum(DOMAIN depth("Bid"), depth("Bid")) < size
                 /\ quote.offer = None
                      <=> SetSum(DOMAIN depth("Offer"), depth("Offer")) < size

\* C13 witness: a get_price call has just returned a bid that crosses two
\* bid levels at different prices and no offer, on a book where some
\* level's aggregate size is not the sum of its orders.
L3QuoteAcrossTwoLevels ==
    /\ last.op = "get_price" /\ last.result = "Ok"
    /\ Cardinality(DOMAIN bids) = 2
    /\ \E side \in MarketSide : \E p \in DOMAIN side_store_of(current, side) :
          AggregateAt(current, side, p) # SumSizes(OrdersAt(current, side, p))
    /\ \E size \in Qtys :
          /\ size > AggregateAt(current, "Bid", 2)
          /\ last.quote = BidOffer(get_price(current, size).bid, None)
          /\ last.quote.bid = Some((2 * AggregateAt(current, "Bid", 2)
                                      + (size - AggregateAt(current, "Bid", 2)))
                                     \div size)

\* C14: clear() empties the bid map, the offer map and the order index of
\* every reachable book; on the cleared book Update and Remove of every id
\* return a failure and get_price returns none on both sides for every
\* positive size.
ClearEmptiesBook ==
    LET out == clear(current) IN
    /\ out.bids = EmptyMap /\ out.offers = EmptyMap /\ out.prices = EmptyMap
    /\ \A side \in MarketSide, id \in Ids, price \in Prices, size \in Sizes :
          /\ update(out, "Update", side, id, price, size) = Outcome(out, "Err")
          /\ update(out, "Remove", side, id, price, size) = Outcome(out, "Err")
    /\ \A size \in Qtys \ {0} :
          get_price(out, size) = [status |-> "Ok", bid |-> None, offer |-> None]
    /\ last.op = "clear" => current = out

\* C14 witness: clear has just run in a behaviour that made a duplicate Add,
\* so the book it emptied had held orders; an Update of id 1 now fails.
ClearedAfterOrders ==
    /\ last.op = "clear"
    /\ dup_adds >= 1
    /\ bids = EmptyMap /\ offers = EmptyMap /\ prices = EmptyMap
    /\ update(current, "Update", "Bid", 1, 1, 1).result = "Err"

(* ------------------------ claims on the L1 market --------------------- *)
\* one market_updated call per registry entry of self, in registry order,
\* each made while the market holds self's price and max
OneRound(self) ==
    Published(1, [i \in 1..Len(self.callbacks) |->
                    [callback |-> self.callbacks[i],
                     price |-> self.price, max |-> self.max]])

\* a call with outcome out, made on self, published if and only if differs;
\* without a difference the market is as before and no callback ran
NotifiesIff(self, out, differs) ==
    /\ out.published.rounds >= 1 <=> differs
    /\ differs /\ self.callbacks # <<>> => out.published.calls # <<>>
    /\ ~differs => out.self = self /\ out.published.calls = <<>>

\* a call with outcome out, made on self with values that differ, stored
\* new_price and new_max, kept the registry and then ran exactly one round
StoresThenNotifies(self, out, differs, new_price, new_max) ==
    differs =>
        /\ out.self = L1(new_price, new_max, self.callbacks)
        /\ out.published = OneRound(out.self)

\* C15: each of the nine L1 mutators notifies the subscribers if and only
\* if the values it is given differ from the current state; a call with
\* values equal to the current state leaves price and max unchanged and
\* invokes no callback.
MutatorNotifiesIffChanged ==
    /\ \A bid \in OptPrices :
          NotifiesIff(market, l1_update_bid(market, bid), bid # market.price.bid)
    /\ \A offer \in OptPrices :
          NotifiesIff(market, l1_update_offer(market, offer),
                      offer # market.price.offer)
    /\ \A max_bid \in OptCaps :
          NotifiesIff(market, l1_update_max_bid(market, max_bid),
                      max_bid # market.max.bid)
    /\ \A max_offer \in OptCaps :
          NotifiesIff(market, l1_update_max_offer(market, max_offer),
                      max_offer # market.max.offer)
    /\ \A bid \in OptPrices, offer \in OptPrices :
          /\ NotifiesIff(market, l1_update(market, bid, offer),
                         BidOffer(bid, offer) # market.price)
          /\ NotifiesIff(market, l1_update_price(market, BidOffer(bid, offer)),
                         BidOffer(bid, offer) # market.price)
    /\ \A max_bid \in OptCaps, max_offer \in OptCaps :
          NotifiesIff(market, l1_update_max(market, BidOffer(max_bid, max_offer)),
                      BidOffer(max_bid, max_offer) # market.max)
    /\ \A bid \in OptPrices, offer \in OptPrices,
          max_bid \in OptCaps, max_offer \in OptCaps :
          LET differs == \/ BidOffer(bid, offer) # market.price
                         \/ BidOffer(max_bid, max_offer) # market.max
          IN  /\ NotifiesIff(market,
                   l1_update_with_max(market, bid, offer, max_bid, max_offer),
                   differs)
              /\ NotifiesIff(market,
                   l1_update_price_with_max(market, BidOffer(bid, offer),
                                            BidOffer(max_bid, max_offer)),
                   differs)

\* C15 witness: update_with_max has just returned without publishing on a
\* market with two subscribers, a bid and an offer cap (it was given the
\* values the market held), while update_bid with another bid would publish.
QuietCallWithSubscribers ==
    /\ last.op = "update_with_max"
    /\ published = NoPublish
    /\ Len(market.callbacks) = 2
    /\ market.price.bid # None /\ market.max.offer # None
    /\ l1_update_bid(market, None).published.rounds = 1

\* C16: when an L1 mutator changes the state, the new state is stored, the
\* registry is kept, and every registry entry is invoked exactly once in
\* subscription order with the new state in place, in the one call; a
\* mutator that changes both price and max runs a single round.
ChangeRunsOneRoundInOrder ==
    /\ \A bid \in OptPrices :
          StoresThenNotifies(market, l1_update_bid(market, bid),
              bid # market.price.bid,
              BidOffer(bid, market.price.offer), market.max)
    /\ \A offer \in OptPrices :
          StoresThenNotifies(market, l1_update_offer(market, offer),
              offer # market.price.offer,
              BidOffer(market.price.bid, offer), market.max)
    /\ \A max_bid \in OptCaps :
          StoresThenNotifies(market, l1_update_max_bid(market, max_bid),
              max_bid # market.max.bid,
              market.price, BidOffer(max_bid, market.max.offer))
    /\ \A max_offer \in OptCaps :
          StoresThenNotifies(market, l1_update_max_offer(market, max_offer),
              max_offer # market.max.offer,
              market.price, BidOffer(market.max.bid, max_offer))
    /\ \A bid \in OptPrices, offer \in OptPrices :
          /\ StoresThenNotifies(market, l1_update(market, bid, offer),
                 BidOffer(bid, offer) # market.price,
                 BidOffer(bid, offer), market.max)
          /\ StoresThenNotifies(market,
                 l1_update_price(market, BidOffer(bid, offer)),
                 BidOffer(bid, offer) # market.price,
                 BidOffer(bid, offer), market.max)
    /\ \A max_bid \in OptCaps, max_offer \in OptCaps :
          StoresThenNotifies(market,
              l1_update_max(market, BidOffer(max_bid, max_offer)),
              BidOffer(max_bid, max_offer) # market.max,
              market.price, BidOffer(max_bid, max_offer))
    /\ \A bid \in OptPrices, offer \in OptPrices,
          max_bid \in OptCaps, max_offer \in OptCaps :
          LET differs == \/ BidOffer(bid, offer) # market.price
                         \/ BidOffer(max_bid, max_offer) # market.max
          IN  /\ StoresThenNotifies(market,
                   l1_update_with_max(market, bid, offer, max_bid, max_offer),
                   differs, BidOffer(bid, offer), BidOffer(max_bid, max_offer))
              /\ StoresThenNotifies(market,
                   l1_update_price_with_max(market, BidOffer(bid, offer),
                                            BidOffer(max_bid, max_offer)),
                   differs, BidOffer(bid, offer), BidOffer(max_bid, max_offer))

\* C16 witness: update_price_with_max has just run one round over the
\* registry <<2, 1>>: callback 2 then callback 1, both with the stored price
\* and max, which are non-null on the bid side.
OneRoundOverTwoSubscribers ==
    /\ last.op = "update_price_with_max"
    /\ market.callbacks = <<2, 1>>
    /\ market.price.bid # None /\ market.max.bid # None
    /\ published.rounds = 1
    /\ Len(published.calls) = 2
    /\ published.calls[1] = [callback |-> 2, price |-> market.price,
                              max |-> market.max]
    /\ published.calls[2].callback = 1

\* C17: L1 get_price(size) returns the current bid if and only if the bid
\* cap is none or size <= bid cap, and none for the bid otherwise; the offer
\* follows the same rule with the offer cap and does not depend on the bid
\* or the bid cap.
QuoteRespectsCaps ==
    \A size \in Qtys :
        LET quote == l1_get_price(market, size) IN
        /\ quote.bid = IF market.max.bid = None \/ size <= market.max.bid[1]
                       THEN market.price.bid ELSE None
        /\ quote.offer = IF market.max.offer = None \/ size <= market.max.offer[1]
                         THEN market.price.offer ELSE None
        /\ \A bid \in OptPrices, max_bid \in OptCaps :
              l1_get_price([market EXCEPT !.price.bid = bid,
                                          !.max.bid = max_bid], size).offer
                = quote.offer

\* C17 witness: get_price has just returned no bid and an offer on a market
\* that has a bid and both caps: the size was above the bid cap and within
\* the offer cap.
BidCappedOfferQuoted ==
    /\ last.op = "get_price"
    /\ market.price.bid # None
    /\ market.max.bid # None /\ market.max.offer # None
    /\ last.quote.bid = None
    /\ last.quote.offer # None

\* C18: L1 clear() leaves bid, offer, bid cap and offer cap none and keeps
\* the registry; it notifies the subscribers, in one round, if and only if
\* at least one of the four was non-null before the call.
ClearNotifiesIffNonNull ==
    LET out     == l1_clear(market)
        nonnull == \/ market.price # BidOffer(None, None)
                   \/ market.max # BidOffer(None, None)
    IN  /\ out.self = L1(BidOffer(None, None), BidOffer(None, None),
                         market.callbacks)
        /\ out.published.rounds >= 1 <=> nonnull
        /\ out.published = IF nonnull THEN OneRound(out.self) ELSE NoPublish

\* C18 witness: clear has just notified two subscribers and the market is
\* all none; clearing again would notify nobody.
ClearNotifiedSubscribers ==
    /\ last.op = "clear"
    /\ market.price = BidOffer(None, None) /\ market.max = BidOffer(None, None)
    /\ published.rounds = 1
    /\ Len(published.calls) = 2
    /\ l1_clear(market).published = NoPublish

(* ------------------------- claims on the L2 book ---------------------- *)
\* the book of tests::sweepable_get_vwap_price
VwapTestBook ==
    L2(12 :> 10 @@ 10 :> 10 @@ 8 :> 10 @@ 6 :> 10,
       16 :> 10 @@ 20 :> 20 @@ 24 :> 10)

\* C19: L2 sweepable get_price(size) is, per side, the volume-weighted
\* average of the sweep from the best price (bids from the highest price
\* down, offers from the lowest price up): each level contributes
\* min(level size, remaining size) and the quote is the truncated quotient
\* total / filled at the first level where filled reaches size; on the book
\* of the example, get_price(20) is (11, 18) and get_price(40) is (9, 20).
L2QuoteIsSweepVwap ==
    /\ \A size \in Qtys :
          LET quote == l2_get_price(sweepable, size)
              bid   == SweepQuote(sweepable.bids, "Bid", size)
              offer == SweepQuote(sweepable.offers, "Offer", size)
          IN  /\ quote.status = "Ok"
                   <=> (bid.status = "Ok" /\ offer.status = "Ok")
              /\ quote.status = "Ok"
                   => quote.bid = bid.value /\ quote.offer = offer.value
    /\ l2_get_price(VwapTestBook, 20)
         = [status |-> "Ok", bid |-> Some(11), offer |-> Some(18)]
    /\ l2_get_price(VwapTestBook, 40)
         = [status |-> "Ok", bid |-> Some(9), offer |-> Some(20)]

\* C19 witness: get_price has just quoted both sides for a size larger than
\* the best bid level, so the bid is an average over two levels, truncated
\* below the best bid price.
L2QuoteAcrossTwoLevels ==
    /\ last.op = "get_price" /\ last.result = "Ok"
    /\ DOMAIN sweepable.bids = {1, 2}
    /\ last.quote.offer # None
    /\ \E size \in Qtys :
          /\ size > sweepable.bids[2]
          /\ sweepable.bids[2] > 0
          /\ last.quote = BidOffer(l2_get_price(sweepable, size).bid,
                                   l2_get_price(sweepable, size).offer)
          /\ last.quote.bid = Some(1)

\* C20: for size > 0, L2 sweepable get_price(size) returns normally, and a
\* side is none exactly when the sum of that side's level sizes is less than
\* size; each side's quote is the one it has with the other side empty.
L2NoneIffInsufficientDepth ==
    \A size \in Qtys \ {0} :
        LET quote == l2_get_price(sweepable, size) IN
        /\ quote.status = "Ok"
        /\ quote.bid = None
             <=> SetSum(DOMAIN sweepable.bids, sweepable.bids) < size
        /\ quote.offer = None
             <=> SetSum(DOMAIN sweepable.offers, sweepable.offers) < size
        /\ quote.bid = l2_get_price(L2(sweepable.bids, EmptyMap), size).bid
        /\ quote.offer = l2_get_price(L2(EmptyMap, sweepable.offers), size).offer

\* C20 witness: get_price has just returned no bid and an offer on a book
\* with two bid levels whose sizes sum to less than the size that the
\* offers can fill.
L2BidTooThinOfferQuoted ==
    /\ last.op = "get_price" /\ last.result = "Ok"
    /\ Cardinality(DOMAIN sweepable.bids) = 2
    /\ SetSum(DOMAIN sweepable.bids, sweepable.bids) > 0
    /\ last.quote.bid = None
    /\ last.quote.offer # None
    /\ \E size \in Qtys \ {0} :
          /\ SetSum(DOMAIN sweepable.bids, sweepable.bids) < size
          /\ l2_get_price(sweepable, size).offer = last.quote.offer

\* the side map of an L2 book
l2_side(self, side) == IF side = "Bid" THEN self.bids ELSE self.offers

\* the maps after and before hold the same entries at every key but k
SameExceptAt(after, before, k) ==
    /\ DOMAIN after \ {k} = DOMAIN before \ {k}
    /\ \A q \in DOMAIN before \ {k} : after[q] = before[q]

\* C21 (as claimed): L2 sweepable Update for a price that is not present on
\* the given side leaves the book as Add with the same arguments does, with
\* the price stored at the given size.
L2UpdateOfAbsentPriceInserts ==
    \A side \in MarketSide, p \in Prices, size \in LevelSizes :
        p \notin DOMAIN l2_side(sweepable, side) =>
            LET out == l2_update(sweepable, "Update", side, p, size) IN
            /\ out = l2_update(sweepable, "Add", side, p, size)
            /\ p \in DOMAIN l2_side(out, side)
            /\ l2_side(out, side)[p] = size

\* C22: L2 sweepable Add, and Update on a present price, leave the given
\* size stored at the price (not the sum with the size stored before);
\* Remove leaves the price absent whatever size is passed; every call keeps
\* all other entries of the side and the whole opposite side.
L2UpdateReplacesEntry ==
    \A action \in UpdateAction, side \in MarketSide,
       p \in Prices, size \in LevelSizes :
        LET before == l2_side(sweepable, side)
            out    == l2_update(sweepable, action, side, p, size)
            after  == l2_side(out, side)
        IN  /\ SameExceptAt(after, before, p)
            /\ l2_side(out, OtherSide(side)) = l2_side(sweepable, OtherSide(side))
            /\ action = "Add" \/ (action = "Update" /\ p \in DOMAIN before)
                 => p \in DOMAIN after /\ after[p] = size
            /\ action = "Remove" => p \notin DOMAIN after

\* C22 witness: an Update has just run; the bid side holds a price at size 1
\* next to another bid level and an offer level, Add with size 2 at that
\* price leaves size 2 there, and Remove with size 1 removes the entry.
L2EntryReplacedAmongOthers ==
    /\ last.op = "update" /\ last.action = "Update"
    /\ sweepable.offers # EmptyMap
    /\ Cardinality(DOMAIN sweepable.bids) = 2
    /\ \E p \in DOMAIN sweepable.bids :
          /\ sweepable.bids[p] = 1
          /\ l2_update(sweepable, "Add", "Bid", p, 2).bids[p] = 2
          /\ p \notin DOMAIN l2_update(sweepable, "Remove", "Bid", p, 1).bids

(* --------------------- claims on the full-amount book ----------------- *)
\* the book of tests::full_amount_get_vwap_price (size tier :> price)
FullTestBook ==
    L2Full(10 :> 12 @@ 20 :> 10 @@ 30 :> 8 @@ 40 :> 6,
           10 :> 16 @@ 30 :> 20 @@ 40 :> 24)

\* the tiers of a side map whose size key covers the requested size
CoveringTiers(side_store, size) == {k \in DOMAIN side_store : k >= size}

\* the price of the covering tier with the smallest size key, none without one
SmallestCoveringTier(side_store, size) ==
    LET covering == CoveringTiers(side_store, size) IN
    IF covering = {} THEN None
    ELSE Some(side_store[CHOOSE k \in covering : \A j \in covering : k <= j])

\* C23: L2 full-amount get_price(size) returns, per side, the price of the
\* tier with the smallest size key that is >= size, as stored, and none when
\* no key is >= size; each side's quote is the one it has with the other
\* side empty. On the book of the example get_price(20) is (10, 20),
\* get_price(40) is (6, 24) and get_price(15) is (10, 20).
FullQuoteIsSmallestCoveringTier ==
    /\ \A size \in Qtys :
          LET quote == full_get_price(full_amount, size) IN
          /\ quote.bid = SmallestCoveringTier(full_amount.bids, size)
          /\ quote.offer = SmallestCoveringTier(full_amount.offers, size)
          /\ quote.bid
               = full_get_price(L2Full(full_amount.bids, EmptyMap), size).bid
          /\ quote.offer
               = full_get_price(L2Full(EmptyMap, full_amount.offers), size).offer
    /\ full_get_price(FullTestBook, 20) = BidOffer(Some(10), Some(20))
    /\ full_get_price(FullTestBook, 40) = BidOffer(Some(6), Some(24))
    /\ full_get_price(FullTestBook, 15) = BidOffer(Some(10), Some(20))
    /\ full_get_price(FullTestBook, 41) = BidOffer(None, None)

\* C23 witness: get_price has just returned the price of the size-2 bid tier
\* for a size the size-1 tier does not cover, the two tiers having different
\* prices, and no offer although the offer side has a tier.
FullSecondTierQuoted ==
    /\ last.op = "get_price"
    /\ DOMAIN full_amount.bids = {1, 2}
    /\ full_amount.bids[1] # full_amount.bids[2]
    /\ full_amount.offers # EmptyMap
    /\ last.quote = BidOffer(Some(full_amount.bids[2]), None)
    /\ full_get_price(full_amount, 2) = last.quote

\* C24 (as claimed): after L2 full-amount Add or Update for (side, price,
\* size) the side map holds tier size with the given price, whether or not
\* the tier existed before (Update on an absent tier creates it); after
\* Remove the tier is absent; every other tier and the opposite side are
\* unchanged.
FullUpdateUpserts ==
    \A action \in UpdateAction, side \in MarketSide,
       p \in Prices, size \in Sizes :
        LET before == l2_side(full_amount, side)
            out    == full_update(full_amount, action, side, p, size)
            after  == l2_side(out, side)
        IN  /\ SameExceptAt(after, before, size)
            /\ l2_side(out, OtherSide(side)) = l2_side(full_amount, OtherSide(side))
            /\ action \in {"Add", "Update"}
                 => size \in DOMAIN after /\ after[size] = p
            /\ action = "Remove" => size \notin DOMAIN after

(* ------------------------- claims on BidOffer ------------------------- *)
\* m is s / 2 rounded toward zero
HalfTowardZero(m, s) ==
    /\ Abs(2 * m) <= Abs(s)
    /\ Abs(s) - Abs(2 * m) <= 1
    /\ m * s >= 0

\* C25: get_mid() returns (bid + offer) / 2 rounded toward zero when both
\* sides are present, the present side when exactly one is present, and none
\* when neither is present.
MidIsTruncatedAverage ==
    LET mid == get_mid(bid_offer) IN
    /\ bid_offer.bid # None /\ bid_offer.offer # None
         => /\ mid # None
            /\ HalfTowardZero(mid[1], bid_offer.bid[1] + bid_offer.offer[1])
    /\ bid_offer.bid # None /\ bid_offer.offer = None => mid = bid_offer.bid
    /\ bid_offer.bid = None /\ bid_offer.offer # None => mid = bid_offer.offer
    /\ bid_offer.bid = None /\ bid_offer.offer = None => mid = None
    /\ get_mid(BidOffer(Some(12), Some(23))) = Some(17)
    /\ last.op = "get_mid" => last.result = mid

\* C25 witness: get_mid has just returned -1 for a bid and an offer whose
\* sum is -3: the quotient -1.5 is cut to -1, not rounded down to -2.
MidOfNegativeOddSum ==
    /\ last.op = "get_mid"
    /\ bid_offer.bid # None /\ bid_offer.offer # None
    /\ bid_offer.bid[1] + bid_offer.offer[1] = -3
    /\ last.result = Some(-1)

(* -------------------- one depth model per behaviour ------------------- *)
\* the objects as their constructors leave them
IdleL3 == bids = EmptyMap /\ offers = EmptyMap /\ prices = EmptyMap /\ dup_adds = 0
IdleL1 == market = l1_new /\ published = NoPublish
IdleL2 == sweepable = l2_new
IdleFull == full_amount = full_new

\* a behaviour makes the calls of one depth model: a call is made on a model
\* while the other three are as constructed
AnyL3 == IdleL1 /\ IdleL2 /\ IdleFull /\ Next
AnyL1 == IdleL3 /\ IdleL2 /\ IdleFull /\ NextL1
AnyL2 == IdleL3 /\ IdleL1 /\ IdleFull /\ NextL2
AnyFull == IdleL3 /\ IdleL1 /\ IdleL2 /\ NextFull

NextAny == AnyL3 \/ AnyL1 \/ AnyL2 \/ AnyFull

SpecAny == Init /\ [][NextAny]_vars

\* C26: a get_price call of any depth model (L1, L2 sweepable, L2
\* full-amount, L3) leaves the whole state of the model as it was and, for
\* L1, invokes no callback; the quote of every size is the same after the
\* call as before it.
GetPriceChangesNothing ==
    [][last'.op = "get_price" =>
         /\ UNCHANGED <<bids, offers, prices, market, sweepable, full_amount>>
         /\ published' = NoPublish
         /\ \A size \in Qtys :
              /\ get_price(current, size)' = get_price(current, size)
              /\ l1_get_price(market, size)' = l1_get_price(market, size)
              /\ l2_get_price(sweepable, size)' = l2_get_price(sweepable, size)
              /\ full_get_price(full_amount, size)'
                   = full_get_price(full_amount, size)]_vars

\* C26 witness: get_price has just returned a quote on an L1 market that has
\* a bid, a cap and two subscribers, and nothing was published.
QuotedWithoutNotifying ==
    /\ last.op = "get_price"
    /\ last.quote.bid # None
    /\ market.max.bid # None
    /\ Len(market.callbacks) = 2
    /\ published = NoPublish

\* C27 (as claimed): no depth-model call aborts. On every reachable book and
\* for every size, size 0 on a non-empty book included, get_price of the L2
\* sweepable and of the L3 model returns a BidOffer value, and every L3
\* update returns Ok or a failure result.
NoCallAborts ==
    /\ \A size \in Qtys :
          /\ get_price(current, size).status = "Ok"
          /\ l2_get_price(sweepable, size).status = "Ok"
    /\ \A action \in UpdateAction, side \in MarketSide,
          id \in Ids, p \in Prices, size \in Sizes :
          update(current, action, side, id, p, size).result \in {"Ok", "Err"}
    /\ last.result # "Panic"

(* --------------------- claims on the pricing source ------------------- *)
\* the registry without the entries made by subscribe(callback)
WithoutCallback(subscriptions, callback) ==
    SelectSeq(subscriptions, LAMBDA x : x.callback # callback)

\* the entries of the registry made by subscribe(callback)
EntriesOf(subscriptions, callback) ==
    {i \in 1..Len(subscriptions) : subscriptions[i].callback = callback}

\* C28: after every sequence of subscribe and unsubscribe calls, unsubscribe
\* of a handle the caller holds removes the one subscription made by the
\* subscribe call that returned the handle and leaves every other
\* subscription registered, in order; a handle of another pricing source
\* removes nothing; no handle is held for a subscription that was removed.
UnsubscribeRemovesOwnSubscription ==
    /\ \A h \in held :
          LET before == source.market_subscriptions
              after  == source_unsubscribe(source, h.handle).market_subscriptions
          IN  /\ after = WithoutCallback(before, h.callback)
              /\ Cardinality(EntriesOf(before, h.callback)) = 1
              /\ Len(after) = Len(before) - 1
    /\ \A subscription \in 1..MaxSubscribe :
          source_unsubscribe(source, Subscription(OtherSource, subscription))
            = source

\* C28 witness: an unsubscribe has just run; the registry holds the first
\* subscription and the third one, which has the id 2 that the removed
\* second one had; the caller holds both handles and the third one's removes
\* the third subscription alone.
IdReusedAfterUnsubscribe ==
    /\ last.op = "unsubscribe" /\ last.action = "None"
    /\ source.market_subscriptions
         = <<MarketSubscription(1, 1), MarketSubscription(2, 3)>>
    /\ Cardinality(held) = 2
    /\ \E h \in held :
          /\ h.callback = 3
          /\ source_unsubscribe(source, h.handle).market_subscriptions
               = <<MarketSubscription(1, 1)>>

\* C30: in L3, while Add has never been called with an id that was in the
\* order index at the time of the call, after every update and clear call
\* the aggregate size of every level equals the sum of the sizes of the
\* orders of that level.
AggregateIsSumWithoutDuplicateAdd ==
    dup_adds = 0 =>
        \A side \in MarketSide : \A price \in DOMAIN side_store_of(current, side) :
            AggregateAt(current, side, price)
              = SumSizes(OrdersAt(current, side, price))

\* C30 witness: no Add of an indexed id was made, an Update has just
\* returned Ok, and a level holds two orders of sizes 1 and 2 with the
\* aggregate 3.
TwoOrdersSummedAfterUpdate ==
    /\ dup_adds = 0
    /\ last.action = "Update" /\ last.result = "Ok"
    /\ \E side \in MarketSide, price \in Prices :
          /\ DOMAIN OrdersAt(current, side, price) = {1, 2}
          /\ OrdersAt(current, side, price)[1] # OrdersAt(current, side, price)[2]
          /\ AggregateAt(current, side, price) = 3

\* C31: in L3, while Add has never been called with an id that was in the
\* order index at the time of the call, after every update and clear call
\* every order entry stored in a level has an order-index entry that names
\* that level's side and price; hence no id is stored in two levels.
StoredOrderIsIndexed ==
    dup_adds = 0 =>
        /\ \A side \in MarketSide, price \in Prices :
              \A id \in DOMAIN OrdersAt(current, side, price) :
                  /\ id \in DOMAIN prices
                  /\ prices[id] = [side |-> side, price |-> price]
        /\ \A id \in Ids :
              Cardinality({sp \in MarketSide \X Prices :
                  id \in DOMAIN OrdersAt(current, sp[1], sp[2])}) <= 1

\* C31 witness: no Add of an indexed id was made, an Update has just
\* returned Ok, and the two ids are stored in two different levels, one on
\* each side.
TwoOrdersOnTwoSidesAfterUpdate ==
    /\ dup_adds = 0
    /\ last.action = "Update" /\ last.result = "Ok"
    /\ DOMAIN prices = {1, 2}
    /\ prices[1].side # prices[2].side
    /\ \A id \in {1, 2} :
          id \in DOMAIN OrdersAt(current, prices[id].side, prices[id].price)

\* the order in which calc_vwap walks a side: bids from the highest price
SweepOrder(store, side) ==
    IF side = "Bid" THEN Reverse(Ascending(DOMAIN store))
                    ELSE Ascending(DOMAIN store)

\* C32: in L3, Add of an id that is indexed at another price or side returns
\* Ok, leaves the earlier order entry in its old level and points the index
\* entry to the new level. A Remove of the id that follows deletes the new
\* entry only: the earlier entry and the aggregate of its level stay, Update
\* and Remove of the id then fail and change nothing, and get_price still
\* quotes the earlier entry's level.
ReAddedOrderLeavesOrphan ==
    \A id \in DOMAIN prices :
      \A side \in MarketSide, price \in Prices, size \in Sizes :
        LET old     == prices[id]
            added   == update(current, "Add", side, id, price, size)
            removed == update(added.book, "Remove", side, id, price, size)
            store   == side_store_of(removed.book, old.side)
        IN  [side |-> side, price |-> price] # old =>
              /\ added.result = "Ok"
              /\ OrdersAt(added.book, old.side, old.price)
                   = OrdersAt(current, old.side, old.price)
              /\ added.book.prices[id] = [side |-> side, price |-> price]
              /\ id \in DOMAIN OrdersAt(added.book, side, price)
              /\ removed.result = "Ok"
              /\ id \notin DOMAIN removed.book.prices
              /\ OrdersAt(removed.book, side, price)
                   = MapRemove(OrdersAt(current, side, price), id)
              /\ OrdersAt(removed.book, old.side, old.price)
                   = OrdersAt(current, old.side, old.price)
              /\ AggregateAt(removed.book, old.side, old.price)
                   = AggregateAt(current, old.side, old.price)
              /\ \A a \in {"Update", "Remove"} :
                   \A s \in MarketSide, p \in Prices, z \in Sizes :
                     update(removed.book, a, s, id, p, z)
                       = Outcome(removed.book, "Err")
              /\ DOMAIN store = {old.price} =>
                   \A q \in 1..AggregateAt(current, old.side, old.price) :
                     calc_vwap(q, store, SweepOrder(store, old.side))
                       = [status |-> "Ok", value |-> Some(old.price)]

\* C32 witness: after a duplicate Add, a Remove has just returned Ok, and
\* an id that is no longer indexed still has an order entry in a level,
\* the only level of its side.
OrphanLeftAfterRemove ==
    /\ dup_adds >= 1
    /\ last.action = "Remove" /\ last.result = "Ok"
    /\ \E id \in Ids \ DOMAIN prices :
         \E s \in MarketSide, p \in Prices :
            /\ id \in DOMAIN OrdersAt(current, s, p)
            /\ DOMAIN side_store_of(current, s) = {p}

\* the prices of a side at which some order is stored, each with the sum of
\* the sizes of the orders stored there
LiveDepth(book, side) ==
    [p \in {q \in Prices : DOMAIN OrdersAt(book, side, q) # {}}
       |-> SumSizes(OrdersAt(book, side, p))]

\* the L2SweepableMarketData that holds the live depth of an L3 book
SweepableOf(book) == L2(LiveDepth(book, "Bid"), LiveDepth(book, "Offer"))

\* C33: in L3, while Add has never been called with an id that was in the
\* order index at the time of the call, for every size > 0 get_price(size)
\* of the L3 book equals get_price(size) of the L2 sweepable book that holds
\* at each side and price the sum of the sizes of the orders stored there.
L3QuotesAsSweepableOfLiveOrders ==
    dup_adds = 0 =>
        \A size \in Qtys \ {0} :
            get_price(current, size) = l2_get_price(SweepableOf(current), size)

\* C33 witness: no Add of an indexed id was made, the offers hold two
\* levels, and get_price has just returned an offer that a size beyond the
\* best level gets, the same in both models.
SweepableAgreesAcrossTwoLevels ==
    /\ dup_adds = 0
    /\ last.op = "get_price" /\ last.result = "Ok"
    /\ DOMAIN offers = {1, 2}
    /\ \E size \in Qtys :
          /\ size > AggregateAt(current, "Offer", 1)
          /\ get_price(current, size).offer = last.quote.offer
          /\ l2_get_price(SweepableOf(current), size).offer = last.quote.offer
          /\ last.quote.offer # None

\* the orders of id y that a book stores: the (side, price, size) of every
\* entry of y in a level
StoredOrdersOf(book, y) ==
    {<<sp[1], sp[2], OrdersAt(book, sp[1], sp[2])[y]>> :
        sp \in {x \in MarketSide \X Prices :
                   y \in DOMAIN OrdersAt(book, x[1], x[2])}}

\* the index entry of id y, none when y is not indexed
IndexEntryOf(book, y) ==
    IF y \in DOMAIN book.prices THEN Some(book.prices[y]) ELSE None

\* the sides an update call acts on: the side argument for Add, the indexed
\* side for Update and Remove, none when the id is not indexed
ActedSides(book, action, side, id) ==
    IF action = "Add" THEN {side}
    ELSE IF id \in DOMAIN book.prices THEN {book.prices[id].side} ELSE {}

\* C34: an L3 update call for an id leaves every other id's order-index
\* entry and every other id's stored orders (side, price and size) as they
\* were, leaves the side map opposite to the side it acts on as it was, and
\* leaves the whole book as it was when it returns Err.
UpdateTouchesOnlyItsOrder ==
    \A action \in UpdateAction, side \in MarketSide, id \in Ids,
       price \in Prices, size \in Sizes :
        LET out == update(current, action, side, id, price, size) IN
        /\ \A y \in Ids \ {id} :
              /\ IndexEntryOf(out.book, y) = IndexEntryOf(current, y)
              /\ StoredOrdersOf(out.book, y) = StoredOrdersOf(current, y)
        /\ \A s \in MarketSide \ ActedSides(current, action, side, id) :
              side_store_of(out.book, s) = side_store_of(current, s)
        /\ out.result = "Err" => out.book = current

\* C34 witness: a Remove has just returned Ok and left the other id indexed
\* and stored on one side and an order on the opposite side.
RemoveLeftOtherOrderAndSide ==
    /\ last.action = "Remove" /\ last.result = "Ok"
    /\ Cardinality(DOMAIN prices) = 1
    /\ \E y \in DOMAIN prices :
          /\ StoredOrdersOf(current, y) # {}
          /\ side_store_of(current, OtherSide(prices[y].side)) # EmptyMap

\* sizes at, between and beyond the level boundaries of VwapTestBook
VwapTestSizes == {1, 10, 15, 20, 30, 40}

\* of two quotes, the one for the larger size has no better price on a side
\* that both quote: its bid is not higher and its offer is not lower
NoBetterForLarger(smaller, larger) ==
    /\ (smaller.bid # None /\ larger.bid # None)
          => smaller.bid[1] >= larger.bid[1]
    /\ (smaller.offer # None /\ larger.offer # None)
          => smaller.offer[1] <= larger.offer[1]

\* every level of an L2 sweepable book has a positive size
PositiveLevels(self) ==
    /\ \A p \in DOMAIN self.bids : self.bids[p] > 0
    /\ \A p \in DOMAIN self.offers : self.offers[p] > 0

\* C35: in the L2 sweepable and the L3 model, with all prices and all level
\* sizes positive, for every two sizes 0 < s1 <= s2 that the sweep fills on
\* a side, get_price(s1).bid >= get_price(s2).bid and get_price(s1).offer
\* <= get_price(s2).offer, the truncating division included.
LargerSizeNoBetterPrice ==
    /\ \A s1 \in Qtys \ {0}, s2 \in Qtys \ {0} :
          s1 <= s2 =>
            /\ NoBetterForLarger(get_price(current, s1), get_price(current, s2))
            /\ PositiveLevels(sweepable) =>
                 NoBetterForLarger(l2_get_price(sweepable, s1),
                                   l2_get_price(sweepable, s2))
    /\ \A s1 \in VwapTestSizes, s2 \in VwapTestSizes :
          s1 <= s2 =>
            NoBetterForLarger(l2_get_price(VwapTestBook, s1),
                              l2_get_price(VwapTestBook, s2))

\* C35 witness: the L2 sweepable book holds size 1 at the best price and
\* size 2 at the other price on both sides, and get_price(3) has just been
\* quoted: the bid 1 is below the bid 2 of size 1, and the offer 5 / 3
\* truncates to the offer 1 of size 1.
LargerSizeWorseBidEqualOffer ==
    /\ last.op = "get_price"
    /\ sweepable = L2(1 :> 2 @@ 2 :> 1, 1 :> 1 @@ 2 :> 2)
    /\ last.quote = BidOffer(Some(1), Some(1))
    /\ l2_get_price(sweepable, 3).bid = Some(1)
    /\ l2_get_price(sweepable, 1).bid = Some(2)
    /\ l2_get_price(sweepable, 1).offer = Some(1)

\* C36: each L1 mutator changes only the fields it names. update_bid leaves
\* the offer and both caps as they were, and so update_offer the bid,
\* update_max_bid the offer cap and both prices, update_max_offer the bid cap
\* and both prices; update and update_price leave both caps, update_max
\* leaves both prices; no mutator and no clear changes the callback registry.
MutatorChangesOnlyNamedFields ==
    /\ \A bid \in OptPrices :
          LET out == l1_update_bid(market, bid).self IN
          /\ out.price.offer = market.price.offer
          /\ out.max = market.max
          /\ out.callbacks = market.callbacks
    /\ \A offer \in OptPrices :
          LET out == l1_update_offer(market, offer).self IN
          /\ out.price.bid = market.price.bid
          /\ out.max = market.max
          /\ out.callbacks = market.callbacks
    /\ \A max_bid \in OptCaps :
          LET out == l1_update_max_bid(market, max_bid).self IN
          /\ out.max.offer = market.max.offer
          /\ out.price = market.price
          /\ out.callbacks = market.callbacks
    /\ \A max_offer \in OptCaps :
          LET out == l1_update_max_offer(market, max_offer).self IN
          /\ out.max.bid = market.max.bid
          /\ out.price = market.price
          /\ out.callbacks = market.callbacks
    /\ \A bid \in OptPrices, offer \in OptPrices :
          \A out \in {l1_update(market, bid, offer).self,
                      l1_update_price(market, BidOffer(bid, offer)).self} :
              /\ out.max = market.max
              /\ out.callbacks = market.callbacks
    /\ \A max_bid \in OptCaps, max_offer \in OptCaps :
          LET out == l1_update_max(market, BidOffer(max_bid, max_offer)).self IN
          /\ out.price = market.price
          /\ out.callbacks = market.callbacks
    /\ \A bid \in OptPrices, offer \in OptPrices,
          max_bid \in OptCaps, max_offer \in OptCaps :
          /\ l1_update_with_max(market, bid, offer, max_bid, max_offer)
               .self.callbacks = market.callbacks
          /\ l1_update_price_with_max(market, BidOffer(bid, offer),
               BidOffer(max_bid, max_offer)).self.callbacks = market.callbacks
    /\ l1_clear(market).self.callbacks = market.callbacks

\* C36 witness: update_max has just changed the caps and notified two
\* subscribers of a market that holds a bid and an offer.
CapsChangedPricesKept ==
    /\ last.op = "update_max"
    /\ published.rounds = 1
    /\ Len(market.callbacks) = 2
    /\ market.price.bid # None /\ market.price.offer # None
    /\ market.max.bid # None

\* C37: at every point of a sequence of subscribe and unsubscribe calls on a
\* VenuePricingSource the ids of the registered subscriptions are strictly
\* increasing in registration order, and hence pairwise distinct; the
\* registry lists the subscriptions in the order of their subscribe calls
\* (each call passes a larger callback than the calls before it).
SubscriptionIdsIncrease ==
    LET registered == source.market_subscriptions IN
    /\ \A i \in 1..Len(registered), j \in 1..Len(registered) :
          i < j => registered[i].id < registered[j].id
    /\ \A i \in 1..Len(registered), j \in 1..Len(registered) :
          i # j => registered[i].id # registered[j].id
    /\ \A i \in 1..Len(registered), j \in 1..Len(registered) :
          i < j => registered[i].callback < registered[j].callback

\* C37 witness: an unsubscribe has just removed the second of three
\* subscriptions: the registry has the ids 1 and 3 with a gap, and a
\* subscribe made now would get the id 4.
RegistryWithGap ==
    /\ last.op = "unsubscribe"
    /\ Len(source.market_subscriptions) = 2
    /\ source.market_subscriptions[1].id = 1
    /\ source.market_subscriptions[2].id = 3
    /\ source_subscribe(source, MaxSubscribe).self.market_subscriptions[3].id = 4

\* the positions of a vector of levels whose size is above the given size
LevelsAbove(side_levels, size) ==
    {i \in 1..Len(side_levels) : side_levels[i].size > size}

\* the price of the first level in vector order whose size is above the
\* given size, none when there is no such level
FirstLevelAbove(side_levels, size) ==
    IF LevelsAbove(side_levels, size) = {} THEN None
    ELSE Some(side_levels[CHOOSE i \in LevelsAbove(side_levels, size) :
                  \A j \in LevelsAbove(side_levels, size) : i <= j].price)

\* C38: TieredMarket get_price(size) returns, per side, the price of the
\* first level in vector order whose size is strictly greater than the
\* requested size, and none when no level has a strictly greater size; a
\* level whose size equals the requested size is not selected.
TieredQuoteIsFirstLevelAbove ==
    \A size \in Qtys :
        LET quote == tiered_get_price(tiered, size) IN
        /\ quote.bid = FirstLevelAbove(tiered.bids, size)
        /\ quote.offer = FirstLevelAbove(tiered.offers, size)
        /\ (\A i \in 1..Len(tiered.bids) : tiered.bids[i].size <= size)
              => quote.bid = None
        /\ (\A i \in 1..Len(tiered.offers) : tiered.offers[i].size <= size)
              => quote.offer = None

\* C38 witness: get_price(1) has just been quoted. The bids hold a level of
\* size 1 before a level of size 2, and the bid is the second level's price;
\* the offers hold a level of size 2 before one of size 1, and the offer is
\* the first level's price, which is not the lowest.
EqualSizeLevelPassedOver ==
    /\ last.op = "get_price"
    /\ tiered = TieredMarket(<<Level(1, 2), Level(2, 1)>>,
                             <<Level(2, 2), Level(1, 1)>>)
    /\ last.quote = BidOffer(Some(1), Some(2))
    /\ tiered_get_price(tiered, 1) = last.quote

====
